---- MODULE Spec2Model ----
(***************************************************************************)
(* The retrieval engine of app/rag_dataset.py (and its documented twin     *)
(* CareGuide/rag_dataset.py): the CSV loader, the lazily built TF-IDF      *)
(* index kept in the module globals _ROWS, _Vectorizer and _MATRIX, and    *)
(* the two public operations rag_search and rag_stats.                     *)
(*                                                                         *)
(* Python strings are sequences of one-character strings, so that strip,   *)
(* lower and the vectorizer's tokenisation are computed, not assumed.      *)
(* Floating point is modelled in fixed point (see Micro and One).          *)
(***************************************************************************)
EXTENDS Integers, Sequences, FiniteSets, TLC

\* ------------------------------------------------------------------ bounds
\* Most data lines of a CSV file.
MaxRows == 2
\* Largest top_k tried (the smallest is MinTopK).
MaxTopK == 3
\* Most _load_rows invocations followed in one behaviour.
MaxLoads == 2
\* Most items the evidence log holds before rag_search is no longer called.
MaxEvidence == 1

\* ----------------------------------------------------------------- strings
\* Python's None, a value no character sequence equals.
None == <<"None">>

\* Texts are sequences of characters of Latin-1 (U+0000 to U+00FF).
\* The characters str.lower() changes, and what it changes them to.
UpperLetters == <<"A","B","C","D","E","F","G","H","I","J","K","L","M",
                  "N","O","P","Q","R","S","T","U","V","W","X","Y","Z",
                  "À","Á","Â","Ã","Ä","Å","Æ","Ç","È","É","Ê","Ë","Ì",
                  "Í","Î","Ï","Ð","Ñ","Ò","Ó","Ô","Õ","Ö","Ø","Ù","Ú",
                  "Û","Ü","Ý","Þ">>
LowerLetters == <<"a","b","c","d","e","f","g","h","i","j","k","l","m",
                  "n","o","p","q","r","s","t","u","v","w","x","y","z",
                  "à","á","â","ã","ä","å","æ","ç","è","é","ê","ë","ì",
                  "í","î","ï","ð","ñ","ò","ó","ô","õ","ö","ø","ù","ú",
                  "û","ü","ý","þ">>
Digits == {"0","1","2","3","4","5","6","7","8","9"}

UpperSet == {UpperLetters[i] : i \in DOMAIN UpperLetters}
LowerSet == {LowerLetters[i] : i \in DOMAIN LowerLetters}
LowerOf ==
    [c \in UpperSet |-> LowerLetters[CHOOSE i \in DOMAIN UpperLetters : UpperLetters[i] = c]]

\* str.lower() on one character.
LowerChar(c) == IF c \in UpperSet THEN LowerOf[c] ELSE c

\* str.lower()
Lower(s) == [i \in 1..Len(s) |-> LowerChar(s[i])]

\* The characters str.strip() removes, those str.isspace() holds for: tab,
\* line feed, vertical tab, form feed, carriage return, U+001C to U+001F,
\* the space, U+0085 and the no-break space.
Whitespace ==
    {"\t", "\n", "", "\f", "\r", "", "", "", "", " ", "", " "}
IsSpace(c) == c \in Whitespace

RECURSIVE LStrip(_)
LStrip(s) == IF s # <<>> /\ IsSpace(Head(s)) THEN LStrip(Tail(s)) ELSE s

RECURSIVE RStrip(_)
RStrip(s) ==
    IF s # <<>> /\ IsSpace(s[Len(s)]) THEN RStrip(SubSeq(s, 1, Len(s) - 1)) ELSE s

\* str.strip()
Strip(s) == RStrip(LStrip(s))

\* Python truthiness of an optional string: None and "" are false.
Truthy(v) == v # None /\ v # <<>>

\* `v or d`
OrElse(v, d) == IF Truthy(v) THEN v ELSE d

\* ---------------------------------------------------------- column aliases
condition == <<"c","o","n","d","i","t","i","o","n">>
disease == <<"d","i","s","e","a","s","e">>
name == <<"n","a","m","e">>
symptoms == <<"s","y","m","p","t","o","m","s">>
symptom == <<"s","y","m","p","t","o","m">>
features == <<"f","e","a","t","u","r","e","s">>
advice == <<"a","d","v","i","c","e">>
self_care == <<"s","e","l","f","_","c","a","r","e">>
recommendations == <<"r","e","c","o","m","m","e","n","d","a","t","i","o","n","s">>
url == <<"u","r","l">>
link == <<"l","i","n","k">>
source == <<"s","o","u","r","c","e">>

CondAliases == {condition, disease, name}
SymAliases == {symptoms, symptom, features}
AdvAliases == {advice, self_care, recommendations}
UrlAliases == {url, link, source}

\* ------------------------------------------------------------------ loader
\* A slip: the last matching column taken instead of the first.
ResolveCol_Last(fieldnames, aliases, default) ==
    LET hits == {i \in 1..Len(fieldnames) : Lower(fieldnames[i]) \in aliases}
    IN  IF hits = {} THEN default
        ELSE fieldnames[CHOOSE i \in hits : \A j \in hits : j <= i]

\* next((c for c in fieldnames if c.lower() in aliases), default)
ResolveCol(fieldnames, aliases, default) ==
    LET hits == {i \in 1..Len(fieldnames) : Lower(fieldnames[i]) \in aliases}
    IN  IF hits = {} THEN default
        ELSE fieldnames[CHOOSE i \in hits : \A j \in hits : i <= j]

\* csv.DictReader's row dict, read with r.get(col): dict(zip(fieldnames, cells))
\* keeps the last of several equal column names, a column past the end of a
\* short line holds restval (None), and an unknown key gives None.
RowGet(fieldnames, cells, col) ==
    LET at == {i \in 1..Len(fieldnames) : fieldnames[i] = col}
    IN  IF at = {} THEN None
        ELSE LET i == CHOOSE k \in at : \A j \in at : j <= k
             IN  IF i <= Len(cells) THEN cells[i] ELSE None

\* KBRow(...) built from one data line.
MakeRow(fieldnames, cells) ==
    LET cond_col == ResolveCol(fieldnames, CondAliases, condition)
        sym_col  == ResolveCol(fieldnames, SymAliases, symptoms)
        adv_col  == ResolveCol(fieldnames, AdvAliases, advice)
        url_col  == ResolveCol(fieldnames, UrlAliases, None)
    IN  [condition |-> Strip(OrElse(RowGet(fieldnames, cells, cond_col), <<>>)),
         symptoms  |-> Strip(OrElse(RowGet(fieldnames, cells, sym_col), <<>>)),
         advice    |-> Strip(OrElse(RowGet(fieldnames, cells, adv_col), <<>>)),
         url       |-> IF Truthy(url_col)
                       THEN OrElse(RowGet(fieldnames, cells, url_col), None)
                       ELSE None]

\* The body of _load_rows for a readable file: one KBRow per data line, in
\* file order; DictReader skips the lines that hold no field at all.
RECURSIVE ParseRows(_, _)
ParseRows(fieldnames, lines) ==
    IF lines = <<>> THEN <<>>
    ELSE IF Head(lines) = <<>> THEN ParseRows(fieldnames, Tail(lines))
    ELSE <<MakeRow(fieldnames, Head(lines))>> \o ParseRows(fieldnames, Tail(lines))

\* -------------------------------------------------------------- vectorizer
\* TfidfVectorizer(min_df=1, max_features=30000, ngram_range=(1,2)).
min_df == 1
max_features == 30000
ngram_max == 2

\* The cell separator of the text built for one row: " | ".
Sep == <<" ", "|", " ">>

\* f"{r.condition} | {r.symptoms} | {r.advice}"
RowText(r) == r.condition \o Sep \o r.symptoms \o Sep \o r.advice

\* The regular expression class \w on str: the letters, the digits, "_", and
\* the other characters of Latin-1 that are alphanumeric.
OtherWordChars ==
    {"ª", "²", "³", "µ", "¹", "º", "¼", "½", "¾", "ß", "ÿ"}
WordChars == LowerSet \cup UpperSet \cup Digits \cup {"_"} \cup OtherWordChars
IsWordChar(c) == c \in WordChars

\* A finished run of word characters is a token when it matches \w\w+.
Emit(run) == IF Len(run) >= 2 THEN <<run>> ELSE <<>>

\* findall(r"(?u)\b\w\w+\b", s): the maximal runs of two or more word
\* characters, left to right; `run` is the run being read.
RECURSIVE Tokens(_, _)
Tokens(s, run) ==
    IF s = <<>> THEN Emit(run)
    ELSE IF IsWordChar(Head(s)) THEN Tokens(Tail(s), Append(run, Head(s)))
    ELSE Emit(run) \o Tokens(Tail(s), <<>>)

\* The analyzer: lower-case, tokenise, then the unigrams followed by the
\* bigrams (two neighbouring tokens joined by one space).
Analyze(text) ==
    LET toks == Tokens(Lower(text), <<>>)
    IN  IF ngram_max < 2 THEN toks
        ELSE toks \o [i \in 1..(Len(toks) - 1) |-> toks[i] \o <<" ">> \o toks[i + 1]]

Range(f) == {f[i] : i \in DOMAIN f}

\* Occurrences of term t in a term sequence (the raw term frequency).
Count(terms, t) == Cardinality({i \in DOMAIN terms : terms[i] = t})

RECURSIVE SetSum(_, _)
SetSum(S, f) ==
    IF S = {} THEN 0
    ELSE LET t == CHOOSE u \in S : TRUE IN f[t] + SetSum(S \ {t}, f)

\* Newton's iteration for the integer square root.
RECURSIVE SqrtIter(_, _)
SqrtIter(x, r) ==
    LET r2 == (r + x \div r) \div 2 IN IF r2 >= r THEN r ELSE SqrtIter(x, r2)

ISqrt(x) == IF x = 0 THEN 0 ELSE SqrtIter(x, x)

\* Floating point is modelled in fixed point.  A weight is held in
\* millionths; a squared similarity is held in units of 1/One.
Micro == 1000000
One == 1000000000

\* floor(a * b / Micro) for weights a, b, without leaving 32 bits.
MulMicro(a, b) ==
    LET a1 == a \div 1000
        a0 == a % 1000
        b1 == b \div 1000
        b0 == b % 1000
    IN  a1 * b1 + (a1 * b0 + a0 * b1 + (a0 * b0) \div 1000) \div 1000

\* One step of the long multiplication below: h = <<q, r>> holds the
\* quotient and remainder for the digits of b read so far.
MulDivStep(h, add, c) ==
    <<8 * h[1] + (8 * h[2] + add) \div c, (8 * h[2] + add) % c>>

\* <<floor(r0 * b / c), (r0 * b) % c>> for r0 < c < 2^27, by the octal
\* digits of b.
RECURSIVE MulDivDigits(_, _, _)
MulDivDigits(r0, b, c) ==
    IF b = 0 THEN <<0, 0>>
    ELSE MulDivStep(MulDivDigits(r0, b \div 8, c), (b % 8) * r0, c)

\* floor(a * b / c), without leaving 32 bits.
MulDiv(a, b, c) == (a \div c) * b + MulDivDigits(a % c, b, c)[1]

\* Natural logarithms of 1..7 in millionths (np.log).
LnMicro == <<0, 693147, 1098612, 1386294, 1609438, 1791759, 1945910>>

\* The smoothed inverse document frequency ln((1 + n) / (1 + df)) + 1, in
\* millionths.
IdfMicro(n, df) == LnMicro[1 + n] - LnMicro[1 + df] + Micro

\* normalize(w, norm="l2") of one row.  The unit vector w / |w| is kept as
\* its direction w and its squared length; an all-zero row stays all-zero.
L2Normalize(w) ==
    [w |-> w, norm2 |-> SetSum(DOMAIN w, [t \in DOMAIN w |-> MulMicro(w[t], w[t])])]

\* The vectorizer object: not created (None), created but not fitted, or
\* fitted with its vocabulary and idf weights.
NoVectorizer == [state |-> "None", vocabulary |-> {}, idf |-> <<>>]
Unfitted == [state |-> "unfitted", vocabulary |-> {}, idf |-> <<>>]

\* The set of terms of each text.
TermSets(texts) == [i \in DOMAIN texts |-> Range(Analyze(texts[i]))]

\* The number of texts that hold term t (its document frequency).
DocFreq(sets, t) == Cardinality({i \in DOMAIN sets : t \in sets[i]})

\* The terms found in at least min_df of the term sets (max_df is 1.0: no
\* term is too frequent).
Candidates(sets) ==
    {t \in UNION {sets[i] : i \in DOMAIN sets} : DocFreq(sets, t) >= min_df}

\* The occurrences of term t in all the analysed texts together
\* (X.sum(axis=0)).
TermTotal(docs, t) == SetSum(DOMAIN docs, [i \in DOMAIN docs |-> Count(docs[i], t)])

\* The pruning by max_features: no more than `limit` terms are kept, the
\* ones that occur most often.  Among terms that occur equally often the
\* ones kept are those numpy's argsort puts first, so that more than one
\* set can be the outcome.
LimitFeatures(texts, limit) ==
    LET docs == [i \in DOMAIN texts |-> Analyze(texts[i])]
        all == Candidates([i \in DOMAIN docs |-> Range(docs[i])])
        tfs == [t \in all |-> TermTotal(docs, t)]
    IN  IF Cardinality(all) <= limit THEN {all}
        ELSE {K \in SUBSET all :
                /\ Cardinality(K) = limit
                /\ \A a \in K, b \in all \ K : tfs[a] >= tfs[b]}

\* The vocabulary fit learns: the candidates, cut down to max_features terms.
Vocabulary(texts) == CHOOSE K \in LimitFeatures(texts, max_features) : TRUE

\* The fitted vectorizer of a vocabulary: the idf of each of its terms.
FitWith(texts, vocab) ==
    LET sets == TermSets(texts)
    IN  [state |-> "fitted", vocabulary |-> vocab,
         idf |-> [t \in vocab |-> IdfMicro(Len(texts), DocFreq(sets, t))]]

\* fit: the vocabulary and the idf of each of its terms.
Fit(texts) == FitWith(texts, Vocabulary(texts))

\* transform([text])[0]: tf * idf over the fitted vocabulary, then l2; the
\* terms outside the vocabulary are ignored.  The row is sparse: it holds
\* the terms that occur in the text.
Transform(v, text) ==
    LET terms == Analyze(text)
    IN  L2Normalize([t \in Range(terms) \cap v.vocabulary |-> Count(terms, t) * v.idf[t]])

\* fit_transform raises ValueError("empty vocabulary ...") when no text
\* holds a token.
FitRaises(texts) == Candidates(TermSets(texts)) = {}

\* The matrix: None, or one row vector per text.
NoMatrix == [isNone |-> TRUE, data |-> <<>>]
FitTransformMatrix(v, texts) ==
    [isNone |-> FALSE, data |-> [i \in DOMAIN texts |-> Transform(v, texts[i])]]

\* The squared cosine of two unit vectors x and y, in units of 1/One:
\* dot(x.w, y.w)^2 / (x.norm2 * y.norm2), and 0 when either is all-zero.
Cosine2(x, y) ==
    IF x.norm2 = 0 \/ y.norm2 = 0 THEN 0
    ELSE LET both == DOMAIN x.w \cap DOMAIN y.w
             d  == SetSum(both, [t \in both |-> MulMicro(x.w[t], y.w[t])])
             hi == IF x.norm2 >= y.norm2 THEN x.norm2 ELSE y.norm2
             lo == IF x.norm2 >= y.norm2 THEN y.norm2 ELSE x.norm2
         IN  IF d = 0 THEN 0 ELSE MulDiv(MulDiv(d, One, hi), d, lo)

\* cosine_similarity(vec, _MATRIX)[0]: the similarity of the query vector to
\* every row.  No weight is negative, so a similarity is held as its square,
\* which orders the rows as the similarity does.
CosineSimilarity(vec, m) == [i \in DOMAIN m.data |-> Cosine2(vec, m.data[i])]

\* A slip: the similarity cut to three decimals instead of rounded.
Round3_Truncate(sim) == ISqrt(sim \div (One \div 4000000)) \div 2

\* round(float(sim), 3), in thousandths: the nearest thousandth to the square
\* root of the squared similarity. A double lies exactly halfway between two
\* thousandths only when it is an odd number of sixteenths (h = 125 * odd),
\* and then round() goes to the even thousandth.
Round3(sim) ==
    LET h == ISqrt(sim \div (One \div 4000000))
        up == (h + 1) \div 2
        tie == h % 2 = 1 /\ h % 125 = 0 /\ h * h * (One \div 4000000) = sim
    IN  IF tie /\ up % 2 = 1 THEN up - 1 ELSE up

\* ------------------------------------------------------------------ top-k
\* The start of the Python slice seq[start:] for a sequence of n items, as
\* a count of items skipped.
PySliceStart(n, start) ==
    IF start < 0 THEN (IF n + start < 0 THEN 0 ELSE n + start)
    ELSE (IF start > n THEN n ELSE start)

\* A slip: seq[:top_k], the first top_k instead of the last.
LastK_First(seq, top_k) ==
    SubSeq(seq, 1, PySliceStart(Len(seq), top_k))

\* seq[-top_k:]
LastK(seq, top_k) ==
    SubSeq(seq, PySliceStart(Len(seq), 0 - top_k) + 1, Len(seq))

\* seq[::-1]
Reverse(seq) == [i \in 1..Len(seq) |-> seq[Len(seq) + 1 - i]]

\* sims.argsort(): the row numbers by ascending similarity.  numpy's default
\* sort is not stable: where rows tie, the order is the platform's, given
\* here by `ties` (a ranking of the row numbers, fixed for the process).
Argsort(sims, ties) ==
    LET before(i, j) ==
            \/ sims[i] < sims[j]
            \/ sims[i] = sims[j] /\ ties[i] < ties[j]
        pos(i) == 1 + Cardinality({j \in DOMAIN sims : before(j, i)})
    IN  [k \in 1..Len(sims) |-> CHOOSE i \in DOMAIN sims : pos(i) = k]

\* A slip: the reversal [::-1] left out.
TopIdx_Ascending(sims, top_k, ties) == LastK(Argsort(sims, ties), top_k)

\* idx = sims.argsort()[-top_k:][::-1]
TopIdx(sims, top_k, ties) == Reverse(LastK(Argsort(sims, ties), top_k))

\* A slip: the score read at the mirrored position of the sims array.
ResultOf_MirroredScore(rows, sims, i) ==
    [condition |-> rows[i].condition,
     symptoms  |-> rows[i].symptoms,
     advice    |-> rows[i].advice,
     url       |-> rows[i].url,
     score     |-> Round3(sims[Len(sims) + 1 - i])]

\* One result dict of rag_search, for matrix row i.
ResultOf(rows, sims, i) ==
    [condition |-> rows[i].condition,
     symptoms  |-> rows[i].symptoms,
     advice    |-> rows[i].advice,
     url       |-> rows[i].url,
     score     |-> Round3(sims[i])]

\* ------------------------------------------------------------------- state
VARIABLES
    localFile,    \* what is at TRIAGE_KB_LOCAL: absent, unreadable or a CSV
    _ROWS,        \* the loaded KBRow list
    _Vectorizer,  \* None, or the TfidfVectorizer object
    _MATRIX,      \* None, or the document matrix
    EVIDENCE,     \* EVIDENCE._items
    loads,        \* how often _load_rows has been invoked
    last,         \* the last public call: its arguments and its outcome
    argsortTies,  \* the order numpy's argsort gives to tied rows
    callers,      \* the concurrent callers: each one's position and locals
    builtBy,      \* which caller last assigned each of the three globals
    memo,         \* the first result a watched rag_search call returned
    store,        \* TTLCache.store: key -> (timestamp, value)
    now,          \* time.time(), in seconds
    _TIMELINE,    \* the timeline events, newest first
    uuids,        \* how many event ids uuid4 has issued
    PHI_ZERO_RETENTION,  \* the zero-retention switch, read at import
    _MEDS_DB,     \* None, or where the loaded medication table came from
    state,        \* the triage session dict the caller holds
    ret           \* what the last cache, timeline or triage call returned

vars == <<localFile, _ROWS, _Vectorizer, _MATRIX, EVIDENCE, loads, last, argsortTies,
          callers, builtBy, memo, store, now, _TIMELINE, uuids,
          PHI_ZERO_RETENTION, _MEDS_DB, state, ret>>

\* The variables of the cache, the timeline and the triage session, which the
\* dataset functions never touch.
toolVars == <<store, now, _TIMELINE, uuids, PHI_ZERO_RETENTION, _MEDS_DB, state, ret>>

\* No triage session yet, and nothing returned yet.
NoState == [started |-> FALSE]
NoRet == [op |-> "none"]

\* The cache, the timeline and the session as they are at import.
ToolsAtImport ==
    /\ store = <<>>
    /\ now = 0
    /\ _TIMELINE = <<>>
    /\ uuids = 0
    /\ PHI_ZERO_RETENTION = FALSE
    /\ _MEDS_DB = "None"
    /\ state = NoState
    /\ ret = NoRet

\* ------------------------------------------------------------- file system
Absent == [kind |-> "absent",      header |-> <<>>, lines |-> <<>>]
\* The path exists but open() fails (a directory, no permission).
Unreadable == [kind |-> "unreadable",  header |-> <<>>, lines |-> <<>>]
\* The path exists but its bytes are not UTF-8.
Undecodable == [kind |-> "undecodable", header |-> <<>>, lines |-> <<>>]
Csv(header, lines) == [kind |-> "csv", header |-> header, lines |-> lines]

\* The outcome of _download_gcs_to_local: False, for every exception and for
\* a URI that is no gs:// URI; or True, with the object written to the path.
DownloadFailed == [kind |-> "failed", header |-> <<>>, lines |-> <<>>]

\* A slip: the download attempted before looking at the local path.
EnsureLocalCsv_AlwaysDownload(file, dl) ==
    IF dl.kind # "failed"
    THEN [path |-> TRUE, file |-> dl, downloaded |-> TRUE]
    ELSE [path |-> file.kind # "absent", file |-> file, downloaded |-> TRUE]

\* _ensure_local_csv, given the outcome `dl` a download attempt would have.
EnsureLocalCsv(file, dl) ==
    IF file.kind # "absent"
    THEN [path |-> TRUE, file |-> file, downloaded |-> FALSE]
    ELSE IF dl.kind = "failed"
    THEN [path |-> FALSE, file |-> file, downloaded |-> TRUE]
    ELSE [path |-> TRUE, file |-> dl, downloaded |-> TRUE]

\* _load_rows: the rows, or the exception open() or the reader raises.
LoadRows(file, dl) ==
    LET e == EnsureLocalCsv(file, dl)
    IN  IF ~e.path
        THEN [raised |-> "None", rows |-> <<>>, file |-> e.file, downloaded |-> e.downloaded]
        ELSE IF e.file.kind = "unreadable"
        THEN [raised |-> "OSError", rows |-> <<>>, file |-> e.file, downloaded |-> e.downloaded]
        ELSE IF e.file.kind = "undecodable"
        THEN [raised |-> "UnicodeDecodeError", rows |-> <<>>, file |-> e.file,
              downloaded |-> e.downloaded]
        ELSE [raised |-> "None", rows |-> ParseRows(e.file.header, e.file.lines),
              file |-> e.file, downloaded |-> e.downloaded]

\* A slip: the guard's test of _ROWS inverted.
IsBuilt_NoRows(rows, vec, mat) == vec.state # "None" /\ ~mat.isNone /\ rows = <<>>

\* The guard of _build_index: all three globals are set and rows is non-empty.
IsBuilt(rows, vec, mat) == vec.state # "None" /\ ~mat.isNone /\ rows # <<>>

\* A slip: the texts taken only from the rows that have advice.
HasAdvice(r) == r.advice # <<>>
Texts_WithAdvice(rows) ==
    LET kept == SelectSeq(rows, HasAdvice)
    IN  [i \in DOMAIN kept |-> RowText(kept[i])]

\* texts = [f"{r.condition} | {r.symptoms} | {r.advice}" for r in _ROWS]
Texts(rows) == [i \in DOMAIN rows |-> RowText(rows[i])]

\* What _build_index leaves after _load_rows ran with outcome ld: the
\* globals, the exception raised, and what the load did to the local path.
Outcome(raised, rows, vec, mat, ld) ==
    [raised |-> raised, rows |-> rows, vec |-> vec, mat |-> mat,
     file |-> ld.file, loaded |-> TRUE, downloaded |-> ld.downloaded]

\* The vectorizer is created and then fitted: when fit_transform raises,
\* _Vectorizer holds the unfitted object and _MATRIX keeps its value.
FitIndex(ld, vec, mat) ==
    LET texts == Texts(ld.rows)
    IN  IF FitRaises(texts)
        THEN Outcome("ValueError", ld.rows, Unfitted, mat, ld)
        ELSE LET v == Fit(texts)
             IN  Outcome("None", ld.rows, v, FitTransformMatrix(v, texts), ld)

\* _ROWS = _load_rows(); if not _ROWS: return; then the fit.  An exception
\* of _load_rows leaves before _ROWS is assigned.
IndexRows(ld, rows, vec, mat) ==
    IF ld.raised # "None" THEN Outcome(ld.raised, rows, vec, mat, ld)
    ELSE IF ld.rows = <<>> THEN Outcome("None", <<>>, vec, mat, ld)
    ELSE FitIndex(ld, vec, mat)

\* A slip: the guard left out, so that every call loads and fits again.
BuildIndex_NoGuard(rows, vec, mat, file, dl) ==
    IndexRows(LoadRows(file, dl), rows, vec, mat)

\* _build_index from the globals (rows, vec, mat): the globals it leaves,
\* the exception it raises, and whether it loaded and downloaded.
BuildIndex(rows, vec, mat, file, dl) ==
    IF IsBuilt(rows, vec, mat)
    THEN [raised |-> "None", rows |-> rows, vec |-> vec, mat |-> mat,
          file |-> file, loaded |-> FALSE, downloaded |-> FALSE]
    ELSE IndexRows(LoadRows(file, dl), rows, vec, mat)

\* ------------------------------------------------------------------ inputs
cd == <<"c", "d">>
ef == <<"e", "f">>
zz == <<"z", "z">>

StdHeader == <<condition, symptoms, advice, url>>
\* Aliases in other letter cases; two columns (Name, Disease) are aliases of
\* the condition field.
AliasHeader == << <<"N","a","m","e">>, <<"D","i","s","e","a","s","e">>,
                  <<"F","e","a","t","u","r","e","s">>, self_care, <<"L","I","N","K">> >>
\* No column is an alias of any field.
OtherHeader == << <<"i","d">>, <<"t","e","x","t">> >>

\* Data lines, as the cells the csv reader splits them into.
LineA == << <<" ","A","b"," ">>, cd, <<>>, <<" ","u"," ">> >>
\* A short line: it has no cell for the fourth column.
LineB == << cd, <<>>, ef >>
\* A line whose cells are all blank.
LineBlank == << <<" ">>, <<>>, <<>>, <<>> >>
\* An empty line: the reader yields no field for it.
LineEmpty == <<>>
\* A line with text but no token: the tokens have two characters or more.
LineNoToken == << <<"x">>, <<"-">> >>

DataLines == {LineA, LineB}

\* The sequences of at most n items of S.
SeqsUpTo(S, n) == UNION {[1..k -> S] : k \in 0..n}

\* The CSV files searched: every file of at most MaxRows data lines, and one
\* with a blank row and an empty line.
SearchFiles ==
    {Csv(StdHeader, ls) : ls \in SeqsUpTo(DataLines, MaxRows)}
        \cup {Csv(StdHeader, <<LineBlank, LineEmpty, LineA>>)}

\* The states of the local path over a process's life.
LifecycleFiles ==
    {Absent, Unreadable, Undecodable,
     Csv(<<>>, <<>>),
     Csv(StdHeader, <<>>),
     Csv(StdHeader, <<LineBlank>>),
     Csv(StdHeader, <<LineNoToken>>),
     Csv(StdHeader, <<LineA>>),
     Csv(StdHeader, <<LineB, LineEmpty, LineA>>),
     Csv(AliasHeader, <<LineA>>),
     Csv(OtherHeader, <<LineA>>)}

\* What a download attempt can do.
DownloadOutcomes == {DownloadFailed, Csv(StdHeader, <<LineB>>)}

Queries == {<<>>, cd, <<"C","D"," ","e","f">>, zz}
MinTopK == 0 - 1
TopKs == MinTopK..MaxTopK

LifecycleQueries == {<<>>, cd}
LifecycleTopKs == {0, 1, MaxTopK}

\* ------------------------------------------------------------ the last call
NoStats == [rows |-> -1, indexed |-> -1]
NoCall ==
    [op |-> "none", query |-> <<>>, top_k |-> 0, raised |-> "None",
     results |-> <<>>, idx |-> <<>>, stats |-> NoStats, items |-> <<>>,
     loaded |-> FALSE, downloaded |-> FALSE, caught |-> "None"]

\* EVIDENCE.add("dataset", f"{n} similar cases")
EvidenceItem(n) == [source |-> "dataset", detail |-> <<n, "similar cases">>]

\* ------------------------------------------------- a watched rag_search
\* What the caller of one watched rag_search(query, top_k) keeps of it: the
\* rows and the result of the first call that returned, whether other calls
\* ran after it, and whether the watched call was made again after those.
NoMemo ==
    [on |-> FALSE, set |-> FALSE, query |-> <<>>, top_k |-> 0,
     rows |-> <<>>, built |-> FALSE, results |-> <<>>, others |-> FALSE,
     repeats |-> FALSE]

\* After a rag_search(query, top_k) that left `rows` as the corpus, with the
\* index built or not.
Remember(m, rows, built, query, top_k, raised, results) ==
    IF ~m.on \/ raised # "None" THEN m
    ELSE IF query = m.query /\ top_k = m.top_k
    THEN IF m.set THEN [m EXCEPT !.repeats = m.others]
         ELSE [m EXCEPT !.set = TRUE, !.rows = rows, !.built = built,
                        !.results = results]
    ELSE [m EXCEPT !.others = m.set]

\* After a rag_stats().
OtherCall(m) == IF m.on THEN [m EXCEPT !.others = m.set] ELSE m

\* ------------------------------------------------------ concurrent callers
\* The threads that call rag_search or rag_stats at the same time.  The
\* sequential specifications have a single caller, followed in `last`.
Callers == {"a", "b"}

\* A caller's position and locals.  pc names the line of rag_dataset.py it
\* is about to run; "idle" is before its call and "done" after it.
IdleCaller ==
    [pc |-> "idle", op |-> "none", query |-> <<>>, top_k |-> 0,
     sawUnbuilt |-> FALSE, loaded |-> FALSE, fitted |-> FALSE,
     rows |-> <<>>, texts |-> <<>>, mat |-> NoMatrix, vec |-> [w |-> <<>>, norm2 |-> 0],
     vecOf |-> "none", matOf |-> "none", rowsOf |-> "none",
     raised |-> "None", results |-> <<>>, stats |-> NoStats]
NoCallers == [t \in Callers |-> IdleCaller]

\* No caller has assigned a global yet.
NoBuilder == [rows |-> "none", vec |-> "none", mat |-> "none"]

\* ----------------------------------------------------------------- actions
Init ==
    /\ localFile \in LifecycleFiles
    /\ _ROWS = <<>>
    /\ _Vectorizer = NoVectorizer
    /\ _MATRIX = NoMatrix
    /\ EVIDENCE = <<>>
    /\ loads = 0
    /\ last = NoCall
    /\ argsortTies \in Permutations(1..MaxRows)
    /\ callers = NoCallers
    /\ builtBy = NoBuilder
    /\ memo = NoMemo
    /\ ToolsAtImport

\* The download outcomes a call can meet: a download is attempted only when
\* the index is not built and the local path does not exist.
Attempts ==
    IF ~IsBuilt(_ROWS, _Vectorizer, _MATRIX) /\ localFile.kind = "absent"
    THEN DownloadOutcomes ELSE {DownloadFailed}

\* What every public call does first: _build_index().
Build(b) ==
    /\ b.loaded => loads < MaxLoads
    /\ localFile' = b.file
    /\ _ROWS' = b.rows
    /\ _Vectorizer' = b.vec
    /\ _MATRIX' = b.mat
    /\ loads' = IF b.loaded THEN loads + 1 ELSE loads
    /\ UNCHANGED <<argsortTies, callers, builtBy>>

\* rag_stats()
RagStats ==
    \E dl \in Attempts :
      LET b == BuildIndex(_ROWS, _Vectorizer, _MATRIX, localFile, dl)
      IN  /\ Build(b)
          /\ UNCHANGED EVIDENCE
          /\ UNCHANGED toolVars
          /\ memo' = OtherCall(memo)
          /\ last' = [NoCall EXCEPT
                !.op = "rag_stats", !.raised = b.raised,
                !.loaded = b.loaded, !.downloaded = b.downloaded,
                !.stats = IF b.raised # "None" THEN NoStats
                          ELSE [rows |-> Len(b.rows),
                                indexed |-> IF b.mat.isNone THEN 0
                                            ELSE Len(b.mat.data)]]

\* The body of rag_search after _build_index returned: the idx array and
\* the result list, or no result when the index is not there.
SearchBody(rows, vec, mat, query, top_k, ties) ==
    IF rows = <<>> \/ vec.state = "None" \/ mat.isNone
    THEN [found |-> FALSE, idx |-> <<>>, out |-> <<>>]
    ELSE LET sims == CosineSimilarity(Transform(vec, query), mat)
             idx  == TopIdx(sims, top_k, ties)
         IN  [found |-> TRUE, idx |-> idx,
              out |-> [k \in 1..Len(idx) |-> ResultOf(rows, sims, idx[k])]]

\* rag_search(query, top_k)
RagSearch(query, top_k) ==
    /\ Len(EVIDENCE) < MaxEvidence
    /\ \E dl \in Attempts :
         LET b == BuildIndex(_ROWS, _Vectorizer, _MATRIX, localFile, dl)
             r == SearchBody(b.rows, b.vec, b.mat, query, top_k, argsortTies)
         IN  /\ Build(b)
             /\ UNCHANGED toolVars
             /\ memo' = Remember(memo, b.rows, IsBuilt(b.rows, b.vec, b.mat),
                                  query, top_k, b.raised, r.out)
             /\ EVIDENCE' = IF b.raised = "None" /\ r.found
                            THEN Append(EVIDENCE, EvidenceItem(Len(r.out)))
                            ELSE EVIDENCE
             /\ last' = [NoCall EXCEPT
                   !.op = "rag_search", !.query = query, !.top_k = top_k,
                   !.raised = b.raised, !.loaded = b.loaded,
                   !.downloaded = b.downloaded,
                   !.idx = IF b.raised = "None" THEN r.idx ELSE <<>>,
                   !.results = IF b.raised = "None" THEN r.out ELSE <<>>]

\* EVIDENCE.snapshot(clear): the items as dicts, and the log emptied on clear.
EvidenceSnapshot(clear) ==
    /\ last' = [NoCall EXCEPT !.op = "snapshot", !.items = EVIDENCE]
    /\ EVIDENCE' = IF clear THEN <<>> ELSE EVIDENCE
    /\ UNCHANGED <<localFile, _ROWS, _Vectorizer, _MATRIX, loads, argsortTies,
                   callers, builtBy, memo, toolVars>>

\* The environment replaces, removes or damages the file at the local path.
WriteFile(f) ==
    /\ f # localFile
    /\ localFile' = f
    /\ UNCHANGED <<_ROWS, _Vectorizer, _MATRIX, EVIDENCE, loads, last, argsortTies,
                   callers, builtBy, memo, toolVars>>

Next ==
    \/ RagStats
    \/ \E q \in LifecycleQueries, k \in LifecycleTopKs : RagSearch(q, k)
    \/ \E clear \in BOOLEAN : EvidenceSnapshot(clear)
    \/ \E f \in LifecycleFiles : WriteFile(f)

\* A process over a backing file that the environment may change.
Spec == Init /\ [][Next]_vars

InitSearch ==
    /\ localFile \in SearchFiles
    /\ _ROWS = <<>>
    /\ _Vectorizer = NoVectorizer
    /\ _MATRIX = NoMatrix
    /\ EVIDENCE = <<>>
    /\ loads = 0
    /\ last = NoCall
    /\ argsortTies \in Permutations(1..MaxRows)
    /\ callers = NoCallers
    /\ builtBy = NoBuilder
    /\ memo = NoMemo
    /\ ToolsAtImport

NextSearch ==
    \/ RagStats
    \/ \E q \in Queries, k \in TopKs : RagSearch(q, k)
    \/ \E clear \in BOOLEAN : EvidenceSnapshot(clear)

\* A process over an unchanging CSV file, searched with every query and top_k.
SpecSearch == InitSearch /\ [][NextSearch]_vars

\* ----------------------------------------------- concurrent callers' steps
\* The threads run the same code with no lock; a step below is a stretch of
\* a caller's code between two points where the interpreter may switch
\* threads, named by the line it runs.
SetCaller(t, c) == callers' = [callers EXCEPT ![t] = c]

\* Where a caller goes when _build_index returns: the rest of its operation.
AfterBuild(c) == IF c.op = "rag_stats" THEN "L90" ELSE "L94"

\* A thread enters rag_stats() or rag_search(query, top_k).
Call(t, op, query, top_k) ==
    /\ callers[t].pc = "idle"
    /\ SetCaller(t, [callers[t] EXCEPT !.pc = "L78", !.op = op,
                                       !.query = query, !.top_k = top_k])
    /\ UNCHANGED <<localFile, _ROWS, _Vectorizer, _MATRIX, EVIDENCE, loads, last, memo, toolVars,
                   argsortTies, builtBy>>

\* Line 78: the guard of _build_index.
CheckBuilt(t) ==
    LET c == callers[t]
    IN  /\ c.pc = "L78"
        /\ SetCaller(t, IF IsBuilt(_ROWS, _Vectorizer, _MATRIX)
                        THEN [c EXCEPT !.pc = AfterBuild(c)]
                        ELSE [c EXCEPT !.pc = "L80", !.sawUnbuilt = TRUE])
        /\ UNCHANGED <<localFile, _ROWS, _Vectorizer, _MATRIX, EVIDENCE, loads, last, memo, toolVars,
                       argsortTies, builtBy>>

\* Line 80 as it would be with a second look at the guard before loading.
LoadStep_Recheck(t) ==
    LET c == callers[t]
    IN  /\ c.pc = "L80"
        /\ IF IsBuilt(_ROWS, _Vectorizer, _MATRIX)
           THEN /\ SetCaller(t, [c EXCEPT !.pc = AfterBuild(c)])
                /\ UNCHANGED <<localFile, loads>>
           ELSE \E dl \in (IF localFile.kind = "absent" THEN DownloadOutcomes
                           ELSE {DownloadFailed}) :
             LET ld == LoadRows(localFile, dl)
             IN  /\ localFile' = ld.file
                 /\ loads' = loads + 1
                 /\ SetCaller(t, IF ld.raised # "None"
                                 THEN [c EXCEPT !.pc = "done", !.loaded = TRUE,
                                                !.raised = ld.raised]
                                 ELSE [c EXCEPT !.pc = "L80store", !.loaded = TRUE,
                                                !.rows = ld.rows])
        /\ UNCHANGED <<_ROWS, builtBy, _Vectorizer, _MATRIX, EVIDENCE, last, memo, toolVars,
                       argsortTies>>

\* Line 80, the call: _load_rows() reads the file, which is where a thread
\* waits and another may run; the rows it returns are not yet stored.
LoadStep(t) ==
    LET c == callers[t]
    IN  /\ c.pc = "L80"
        /\ \E dl \in (IF localFile.kind = "absent" THEN DownloadOutcomes
                      ELSE {DownloadFailed}) :
             LET ld == LoadRows(localFile, dl)
             IN  /\ localFile' = ld.file
                 /\ loads' = loads + 1
                 /\ SetCaller(t, IF ld.raised # "None"
                                 THEN [c EXCEPT !.pc = "done", !.loaded = TRUE,
                                                !.raised = ld.raised]
                                 ELSE [c EXCEPT !.pc = "L80store", !.loaded = TRUE,
                                                !.rows = ld.rows])
        /\ UNCHANGED <<_ROWS, builtBy, _Vectorizer, _MATRIX, EVIDENCE, last, memo, toolVars,
                       argsortTies>>

\* Line 80, the assignment: _ROWS = <the rows returned>
StoreRows(t) ==
    LET c == callers[t]
    IN  /\ c.pc = "L80store"
        /\ _ROWS' = c.rows
        /\ builtBy' = [builtBy EXCEPT !.rows = t]
        /\ SetCaller(t, [c EXCEPT !.pc = "L81"])
        /\ UNCHANGED <<localFile, _Vectorizer, _MATRIX, EVIDENCE, loads, last, memo, toolVars,
                       argsortTies>>

\* Line 81: if not _ROWS: return
EmptyCheck(t) ==
    LET c == callers[t]
    IN  /\ c.pc = "L81"
        /\ SetCaller(t, [c EXCEPT !.pc = IF _ROWS = <<>> THEN AfterBuild(c) ELSE "L83"])
        /\ UNCHANGED <<localFile, _ROWS, _Vectorizer, _MATRIX, EVIDENCE, loads, last, memo, toolVars,
                       argsortTies, builtBy>>

\* Line 83: texts, from the global _ROWS as it is now.
MakeTexts(t) ==
    LET c == callers[t]
    IN  /\ c.pc = "L83"
        /\ SetCaller(t, [c EXCEPT !.pc = "L85", !.texts = Texts(_ROWS)])
        /\ UNCHANGED <<localFile, _ROWS, _Vectorizer, _MATRIX, EVIDENCE, loads, last, memo, toolVars,
                       argsortTies, builtBy>>

\* Line 85: _Vectorizer = TfidfVectorizer(...), a new, unfitted object.
NewVectorizer(t) ==
    LET c == callers[t]
    IN  /\ c.pc = "L85"
        /\ _Vectorizer' = Unfitted
        /\ builtBy' = [builtBy EXCEPT !.vec = t]
        /\ SetCaller(t, [c EXCEPT !.pc = "L86"])
        /\ UNCHANGED <<localFile, _ROWS, _MATRIX, EVIDENCE, loads, last, memo, toolVars, argsortTies>>

\* Line 86, the call: _Vectorizer.fit_transform(texts) fits the object the
\* global names now and returns the matrix, which is not yet stored.
FitTransform(t) ==
    LET c == callers[t]
    IN  /\ c.pc = "L86"
        /\ IF FitRaises(c.texts)
           THEN /\ SetCaller(t, [c EXCEPT !.pc = "done", !.raised = "ValueError"])
                /\ UNCHANGED <<_Vectorizer, builtBy>>
           ELSE LET v == Fit(c.texts)
                IN  /\ _Vectorizer' = v
                    /\ builtBy' = [builtBy EXCEPT !.vec = t]
                    /\ SetCaller(t, [c EXCEPT !.pc = "L86store", !.fitted = TRUE,
                                              !.mat = FitTransformMatrix(v, c.texts)])
        /\ UNCHANGED <<localFile, _ROWS, _MATRIX, EVIDENCE, loads, last, memo, toolVars, argsortTies>>

\* Line 86, the assignment: _MATRIX = <the matrix returned>
StoreMatrix(t) ==
    LET c == callers[t]
    IN  /\ c.pc = "L86store"
        /\ _MATRIX' = c.mat
        /\ builtBy' = [builtBy EXCEPT !.mat = t]
        /\ SetCaller(t, [c EXCEPT !.pc = AfterBuild(c)])
        /\ UNCHANGED <<localFile, _ROWS, _Vectorizer, EVIDENCE, loads, last, memo, toolVars,
                       argsortTies>>

\* Line 90: rag_stats returns.
StatsReturn(t) ==
    LET c == callers[t]
    IN  /\ c.pc = "L90"
        /\ SetCaller(t, [c EXCEPT !.pc = "done",
               !.stats = [rows |-> Len(_ROWS),
                          indexed |-> IF _MATRIX.isNone THEN 0 ELSE Len(_MATRIX.data)]])
        /\ UNCHANGED <<localFile, _ROWS, _Vectorizer, _MATRIX, EVIDENCE, loads, last, memo, toolVars,
                       argsortTies, builtBy>>

\* Lines 94-95: rag_search returns [] when a global is missing.
SearchGuard(t) ==
    LET c == callers[t]
    IN  /\ c.pc = "L94"
        /\ SetCaller(t, [c EXCEPT !.pc =
               IF _ROWS = <<>> \/ _Vectorizer.state = "None" \/ _MATRIX.isNone
               THEN "done" ELSE "L96"])
        /\ UNCHANGED <<localFile, _ROWS, _Vectorizer, _MATRIX, EVIDENCE, loads, last, memo, toolVars,
                       argsortTies, builtBy>>

\* Line 96: vec = _Vectorizer.transform([query]); an object that is not
\* fitted raises NotFittedError.
TransformQuery(t) ==
    LET c == callers[t]
    IN  /\ c.pc = "L96"
        /\ SetCaller(t, IF _Vectorizer.state # "fitted"
                        THEN [c EXCEPT !.pc = "done", !.raised = "NotFittedError",
                                       !.vecOf = builtBy.vec]
                        ELSE [c EXCEPT !.pc = "L98", !.vecOf = builtBy.vec,
                                       !.vec = Transform(_Vectorizer, c.query)])
        /\ UNCHANGED <<localFile, _ROWS, _Vectorizer, _MATRIX, EVIDENCE, loads, last, memo, toolVars,
                       argsortTies, builtBy>>

\* Lines 98-109: the similarities to the global _MATRIX as it is now, and the
\* result list from the global _ROWS.
Similarity(t) ==
    LET c == callers[t]
        sims == CosineSimilarity(c.vec, _MATRIX)
        idx == TopIdx(sims, c.top_k, argsortTies)
    IN  /\ c.pc = "L98"
        /\ SetCaller(t, [c EXCEPT !.pc = "L110", !.matOf = builtBy.mat,
               !.rowsOf = builtBy.rows,
               !.results = [k \in 1..Len(idx) |-> ResultOf(_ROWS, sims, idx[k])]])
        /\ UNCHANGED <<localFile, _ROWS, _Vectorizer, _MATRIX, EVIDENCE, loads, last, memo, toolVars,
                       argsortTies, builtBy>>

\* Line 110: EVIDENCE.add("dataset", ...), then the return.
AddEvidence(t) ==
    LET c == callers[t]
    IN  /\ c.pc = "L110"
        /\ EVIDENCE' = Append(EVIDENCE, EvidenceItem(Len(c.results)))
        /\ SetCaller(t, [c EXCEPT !.pc = "done"])
        /\ UNCHANGED <<localFile, _ROWS, _Vectorizer, _MATRIX, loads, last, memo, toolVars,
                       argsortTies, builtBy>>

\* The CSV files of the concurrent runs: two rows, a row without a token,
\* and no row.
RaceFiles ==
    {Csv(StdHeader, <<LineB, LineEmpty, LineA>>),
     Csv(StdHeader, <<LineNoToken>>),
     Csv(StdHeader, <<>>)}

InitRace ==
    /\ localFile \in RaceFiles
    /\ _ROWS = <<>>
    /\ _Vectorizer = NoVectorizer
    /\ _MATRIX = NoMatrix
    /\ EVIDENCE = <<>>
    /\ loads = 0
    /\ last = NoCall
    /\ argsortTies \in Permutations(1..MaxRows)
    /\ callers = NoCallers
    /\ builtBy = NoBuilder
    /\ memo = NoMemo
    /\ ToolsAtImport

NextRace ==
    \E t \in Callers :
        \/ Call(t, "rag_stats", <<>>, 0)
        \/ \E k \in {1, MaxTopK} : Call(t, "rag_search", cd, k)
        \/ CheckBuilt(t)
        \/ LoadStep(t)
        \/ StoreRows(t)
        \/ EmptyCheck(t)
        \/ MakeTexts(t)
        \/ NewVectorizer(t)
        \/ FitTransform(t)
        \/ StoreMatrix(t)
        \/ StatsReturn(t)
        \/ SearchGuard(t)
        \/ TransformQuery(t)
        \/ Similarity(t)
        \/ AddEvidence(t)

\* Two threads, each making one call, over an unchanging CSV file, with every
\* interleaving of their steps.
SpecRace == InitRace /\ [][NextRace]_vars

\* ------------------------------------------------ repeated rag_search calls
RepeatFiles ==
    {Csv(StdHeader, <<LineB, LineEmpty, LineA>>),
     Csv(StdHeader, <<LineA>>),
     Csv(StdHeader, <<>>)}

\* One rag_search(query, top_k) is watched.
InitRepeat ==
    /\ localFile \in RepeatFiles
    /\ _ROWS = <<>>
    /\ _Vectorizer = NoVectorizer
    /\ _MATRIX = NoMatrix
    /\ EVIDENCE = <<>>
    /\ loads = 0
    /\ last = NoCall
    /\ argsortTies \in Permutations(1..MaxRows)
    /\ callers = NoCallers
    /\ builtBy = NoBuilder
    /\ \E q \in LifecycleQueries, k \in LifecycleTopKs :
           memo = [NoMemo EXCEPT !.on = TRUE, !.query = q, !.top_k = k]
    /\ ToolsAtImport

NextRepeat ==
    \/ RagStats
    \/ \E q \in LifecycleQueries, k \in LifecycleTopKs : RagSearch(q, k)
    \/ EvidenceSnapshot(TRUE)
    \/ \E f \in RepeatFiles : WriteFile(f)

\* A process in which one rag_search call is made again and again, among
\* other calls.
SpecRepeat == InitRepeat /\ [][NextRepeat]_vars

\* ---------------------------------------------------------- intent router
\* _MENU_INTENTS: the menu digit, or None for a text that is not one.
MenuIntent(t) ==
    CASE t = <<"0">> -> "main_menu"
      [] t = <<"1">> -> "triage"
      [] t = <<"2">> -> "nearby"
      [] t = <<"3">> -> "costs"
      [] t = <<"4">> -> "whatif"
      [] t = <<"5">> -> "medsx"
      [] t = <<"6">> -> "book"
      [] t = <<"7">> -> "intake"
      [] OTHER -> "None"

\* The literal w occurs in t from position i on.
Occurs(t, w, i) == i + Len(w) - 1 <= Len(t) /\ SubSeq(t, i, i + Len(w) - 1) = w

\* \b between positions p and p + 1 of t: a word character on exactly one
\* side, the outside of the text counting as no word character.
IsWordAt(t, p) == p \in DOMAIN t /\ IsWordChar(t[p])
WordBoundary(t, p) == IsWordAt(t, p) # IsWordAt(t, p + 1)

\* re.search of one alternative of a pattern. An alternative is a literal w,
\* with \b before it if b; alone it ends with \b if e. With a tail it is
\* w.*(u1|u2)\b: w, then any characters but a newline, then one literal of
\* the tail, which ends with \b if e.
SearchAlt(a, t) ==
    \E i \in DOMAIN t :
        /\ Occurs(t, a.w, i)
        /\ a.b => WordBoundary(t, i - 1)
        /\ IF a.tail = {}
           THEN a.e => WordBoundary(t, i + Len(a.w) - 1)
           ELSE \E u \in a.tail : \E j \in (i + Len(a.w))..Len(t) :
                   /\ Occurs(t, u, j)
                   /\ a.e => WordBoundary(t, j + Len(u) - 1)
                   /\ \A k \in (i + Len(a.w))..(j - 1) : t[k] # "\n"

\* _INTENT_PATTERNS, each regular expression as the set of its alternatives,
\* the optional parts written out.
Pattern_triage ==
    [intent |-> "triage",
     alts |-> {[w |-> <<"t","r","i","a","g","e">>, b |-> TRUE, e |-> FALSE, tail |-> {}],
              [w |-> <<"s","y","m","p","t","o","m">>, b |-> FALSE, e |-> FALSE, tail |-> {}],
              [w |-> <<"d","i","a","g","n","o","s">>, b |-> FALSE, e |-> FALSE, tail |-> {}],
              [w |-> <<"w","h","a","t">>, b |-> FALSE, e |-> TRUE, tail |-> {<<"w","r","o","n","g">>, <<"m","i","g","h","t"," ","b","e">>}]}]
Pattern_nearby ==
    [intent |-> "nearby",
     alts |-> {[w |-> <<"n","e","a","r","b","y">>, b |-> TRUE, e |-> FALSE, tail |-> {}],
              [w |-> <<"c","l","i","n","i","c">>, b |-> FALSE, e |-> FALSE, tail |-> {}],
              [w |-> <<"h","o","s","p","i","t","a","l">>, b |-> FALSE, e |-> FALSE, tail |-> {}],
              [w |-> <<"u","r","g","e","n","t"," ","c","a","r","e">>, b |-> FALSE, e |-> FALSE, tail |-> {}],
              [w |-> <<"d","o","c","t","o","r">>, b |-> FALSE, e |-> FALSE, tail |-> {}],
              [w |-> <<"f","i","n","d"," ","c","a","r","e">>, b |-> FALSE, e |-> FALSE, tail |-> {}],
              [w |-> <<"c","l","o","s","e"," ","t","o"," ","m","e">>, b |-> FALSE, e |-> TRUE, tail |-> {}]}]
Pattern_costs ==
    [intent |-> "costs",
     alts |-> {[w |-> <<"c","o","s","t">>, b |-> TRUE, e |-> FALSE, tail |-> {}],
              [w |-> <<"p","r","i","c","e">>, b |-> FALSE, e |-> FALSE, tail |-> {}],
              [w |-> <<"h","o","w"," ","m","u","c","h">>, b |-> FALSE, e |-> FALSE, tail |-> {}],
              [w |-> <<"c","o","p","a","y">>, b |-> FALSE, e |-> FALSE, tail |-> {}],
              [w |-> <<"f","e","e">>, b |-> FALSE, e |-> TRUE, tail |-> {}],
              [w |-> <<"f","e","e","s">>, b |-> FALSE, e |-> TRUE, tail |-> {}]}]
Pattern_whatif ==
    [intent |-> "whatif",
     alts |-> {[w |-> <<"w","h","a","t"," ","i","f">>, b |-> TRUE, e |-> FALSE, tail |-> {}],
              [w |-> <<"w","o","r","s","t"," ","c","a","s","e">>, b |-> FALSE, e |-> FALSE, tail |-> {}],
              [w |-> <<"r","i","s","k">>, b |-> FALSE, e |-> FALSE, tail |-> {}],
              [w |-> <<"d","a","n","g","e","r">>, b |-> FALSE, e |-> TRUE, tail |-> {}]}]
Pattern_medsx ==
    [intent |-> "medsx",
     alts |-> {[w |-> <<"m","e","d">>, b |-> TRUE, e |-> TRUE, tail |-> {}],
              [w |-> <<"m","e","d","s">>, b |-> TRUE, e |-> TRUE, tail |-> {}],
              [w |-> <<"m","e","d","i","c","a","t","i","o","n">>, b |-> TRUE, e |-> TRUE, tail |-> {}],
              [w |-> <<"m","e","d","i","c","a","t","i","o","n","s">>, b |-> TRUE, e |-> TRUE, tail |-> {}],
              [w |-> <<"s","i","d","e","e","f","f","e","c","t">>, b |-> TRUE, e |-> TRUE, tail |-> {}],
              [w |-> <<"s","i","d","e","e","f","f","e","c","t","s">>, b |-> TRUE, e |-> TRUE, tail |-> {}],
              [w |-> <<"s","i","d","e","-","e","f","f","e","c","t">>, b |-> TRUE, e |-> TRUE, tail |-> {}],
              [w |-> <<"s","i","d","e","-","e","f","f","e","c","t","s">>, b |-> TRUE, e |-> TRUE, tail |-> {}],
              [w |-> <<"s","i","d","e"," ","e","f","f","e","c","t">>, b |-> TRUE, e |-> TRUE, tail |-> {}],
              [w |-> <<"s","i","d","e"," ","e","f","f","e","c","t","s">>, b |-> TRUE, e |-> TRUE, tail |-> {}],
              [w |-> <<"d","r","u","g">>, b |-> FALSE, e |-> TRUE, tail |-> {}],
              [w |-> <<"p","h","a","r","m","a">>, b |-> FALSE, e |-> TRUE, tail |-> {}]}]
Pattern_book ==
    [intent |-> "book",
     alts |-> {[w |-> <<"b","o","o","k">>, b |-> TRUE, e |-> FALSE, tail |-> {}],
              [w |-> <<"a","p","p","o","i","n","t","m","e","n","t">>, b |-> FALSE, e |-> FALSE, tail |-> {}],
              [w |-> <<"s","c","h","e","d","u","l","e">>, b |-> FALSE, e |-> TRUE, tail |-> {}]}]
Pattern_intake ==
    [intent |-> "intake",
     alts |-> {[w |-> <<"f","o","r","m">>, b |-> TRUE, e |-> FALSE, tail |-> {}],
              [w |-> <<"i","n","t","a","k","e">>, b |-> FALSE, e |-> FALSE, tail |-> {}],
              [w |-> <<"c","h","e","c","k","i","n">>, b |-> FALSE, e |-> TRUE, tail |-> {}],
              [w |-> <<"c","h","e","c","k","-","i","n">>, b |-> FALSE, e |-> TRUE, tail |-> {}],
              [w |-> <<"c","h","e","c","k"," ","i","n">>, b |-> FALSE, e |-> TRUE, tail |-> {}]}]
Pattern_main_menu ==
    [intent |-> "main_menu",
     alts |-> {[w |-> <<"m","e","n","u">>, b |-> TRUE, e |-> FALSE, tail |-> {}],
              [w |-> <<"s","t","a","r","t"," ","o","v","e","r">>, b |-> FALSE, e |-> FALSE, tail |-> {}],
              [w |-> <<"m","a","i","n"," ","m","e","n","u">>, b |-> FALSE, e |-> TRUE, tail |-> {}]}]

_INTENT_PATTERNS ==
    <<Pattern_triage, Pattern_nearby, Pattern_costs, Pattern_whatif,
      Pattern_medsx, Pattern_book, Pattern_intake, Pattern_main_menu>>

\* re.search(pat, t)
ReSearch(pat, t) == \E a \in pat.alts : SearchAlt(a, t)

\* route_user_input(text): the intent of the menu digit, else of the first
\* pattern found in the text, else "unknown".
RouteUserInput(text) ==
    LET t == Lower(Strip(OrElse(text, <<>>)))
        hits == {i \in DOMAIN _INTENT_PATTERNS : ReSearch(_INTENT_PATTERNS[i], t)}
    IN  IF MenuIntent(t) # "None"
        THEN [intent |-> MenuIntent(t), by |-> "menu"]
        ELSE IF hits # {}
        THEN [intent |-> _INTENT_PATTERNS[CHOOSE i \in hits : \A j \in hits : i <= j].intent,
              by |-> "pattern"]
        ELSE [intent |-> "unknown", by |-> "none"]

\* ------------------------------------------------------ assistant tools
\* names[:3]: the conditions named in the wrapper's breadcrumb.
NamesShown == 3

\* EVIDENCE.add("dataset", f"rag error: {e}")
ErrorItem(e) == [source |-> "dataset", detail |-> <<"rag error", e>>]
\* EVIDENCE.add("dataset", f"rag top_k={n} -> {', '.join(names[:3])}")
ToolItem(n, names) ==
    [source |-> "dataset",
     detail |-> <<"rag top_k", n,
                  SubSeq(names, 1, IF Len(names) < NamesShown THEN Len(names)
                                   ELSE NamesShown)>>]
\* EVIDENCE.add("greeting", "menu v4 ...")
GreetingItem == [source |-> "greeting", detail |-> <<"menu v4">>]

\* [r.get("condition", "") for r in results if r.get("condition")]
RECURSIVE Names(_)
Names(results) ==
    IF results = <<>> THEN <<>>
    ELSE (IF Truthy(Head(results).condition) THEN <<Head(results).condition>> ELSE <<>>)
             \o Names(Tail(results))

\* A slip: the breadcrumb added whenever there are results.
ToolBody_CrumbForResults(raised, results) ==
    IF raised # "None"
    THEN [caught |-> raised, results |-> <<>>, added |-> <<ErrorItem(raised)>>]
    ELSE [caught |-> "None", results |-> results,
          added |-> IF results # <<>>
                    THEN <<ToolItem(Len(results), Names(results))>> ELSE <<>>]

\* rag_search_tool around the outcome of rag_search (the exception it raised,
\* or its results): what the wrapper returns and what it adds to EVIDENCE.
ToolBody(raised, results) ==
    IF raised # "None"
    THEN [caught |-> raised, results |-> <<>>, added |-> <<ErrorItem(raised)>>]
    ELSE [caught |-> "None", results |-> results,
          added |-> IF Names(results) # <<>>
                    THEN <<ToolItem(Len(results), Names(results))>> ELSE <<>>]

\* rag_search_tool(query, top_k)
RagSearchTool(query, top_k) ==
    /\ Len(EVIDENCE) < MaxEvidence
    /\ \E dl \in Attempts :
         LET b == BuildIndex(_ROWS, _Vectorizer, _MATRIX, localFile, dl)
             r == SearchBody(b.rows, b.vec, b.mat, query, top_k, argsortTies)
             t == ToolBody(b.raised, IF b.raised = "None" THEN r.out ELSE <<>>)
         IN  /\ Build(b)
             /\ UNCHANGED toolVars
             /\ memo' = Remember(memo, b.rows, IsBuilt(b.rows, b.vec, b.mat),
                                  query, top_k, b.raised, r.out)
             /\ EVIDENCE' =
                   (IF b.raised = "None" /\ r.found
                    THEN Append(EVIDENCE, EvidenceItem(Len(r.out)))
                    ELSE EVIDENCE) \o t.added
             /\ last' = [NoCall EXCEPT
                   !.op = "rag_search_tool", !.query = query, !.top_k = top_k,
                   !.loaded = b.loaded, !.downloaded = b.downloaded,
                   !.caught = t.caught,
                   !.idx = IF b.raised = "None" THEN r.idx ELSE <<>>,
                   !.results = t.results]

\* greeting(): rag_stats() for the line about the library, an exception of
\* it caught; then the menu text, and one "greeting" item in EVIDENCE.
Greeting ==
    /\ Len(EVIDENCE) < MaxEvidence
    /\ \E dl \in Attempts :
         LET b == BuildIndex(_ROWS, _Vectorizer, _MATRIX, localFile, dl)
         IN  /\ Build(b)
             /\ last' = [NoCall EXCEPT
                   !.op = "greeting", !.caught = b.raised,
                   !.loaded = b.loaded, !.downloaded = b.downloaded,
                   !.stats = IF b.raised # "None" THEN NoStats
                             ELSE [rows |-> Len(b.rows),
                                   indexed |-> IF b.mat.isNone THEN 0
                                               ELSE Len(b.mat.data)]]
    /\ EVIDENCE' = Append(EVIDENCE, GreetingItem)
    /\ memo' = OtherCall(memo)
    /\ UNCHANGED toolVars

\* Two names of one medication.
acetaminophen == <<"a","c","e","t","a","m","i","n","o","p","h","e","n">>
paracetamol == <<"p","a","r","a","c","e","t","a","m","o","l">>

\* ---- inputs of the checks
\* What the user asks and takes.
QuestionTexts == {<<" ","H","i","g","h"," "," ","f","e","v","e","r"," ","a","n","d"," ","c","h","e","s","t"," ","p","a","i","n">>,
                  <<"m","i","l","d"," ","c","o","u","g","h">>}
MedsLists == {<<>>, <<<<" ","I","b","u","p","r","o","f","e","n"," ">>, acetaminophen>>}
FileTexts == {<<>>, <<"i","b","u","p","r","o","f","e","n",";","A","s","p","i","r","i","n">>}
NamesLists == {<<<<"i","b","u","p","r","o","f","e","n">>>>, <<<<"W","a","r","f","a","r","i","n">>, <<"a","s","p","i","r","i","n">>>>}

\* ---- what_if_check
\* re.sub(r"\s+", " ", s): every run of whitespace becomes one space.
RECURSIVE CollapseSpaces(_)
CollapseSpaces(s) ==
    IF s = <<>> THEN <<>>
    ELSE IF IsSpace(Head(s)) THEN <<" ">> \o CollapseSpaces(LStrip(s))
    ELSE <<Head(s)>> \o CollapseSpaces(Tail(s))

\* _norm(s)
Norm(s) == CollapseSpaces(Lower(Strip(OrElse(s, <<>>))))

\* (\.|,)?\s? : nothing or a point or a comma, then nothing or one whitespace.
PointThenSpace ==
    {p \o w : p \in {<<>>, <<".">>, <<",">>}, w \in {<<>>} \cup {<<c>> : c \in Whitespace}}

\* \b39(\.|,)?\s?c|102(\.|,)?\s?f|high fever\b
FeverPattern ==
    [alts |-> {[w |-> <<"3","9">> \o m \o <<"c">>, b |-> TRUE, e |-> FALSE, tail |-> {}]
                  : m \in PointThenSpace}
         \cup {[w |-> <<"1","0","2">> \o m \o <<"f">>, b |-> FALSE, e |-> FALSE, tail |-> {}]
                  : m \in PointThenSpace}
         \cup {[w |-> <<"h","i","g","h"," ","f","e","v","e","r">>, b |-> FALSE, e |-> TRUE, tail |-> {}]}]

\* \bchest pain|severe trouble breathing|shortness of breath\b
ChestPattern ==
    [alts |-> {[w |-> <<"c","h","e","s","t"," ","p","a","i","n">>, b |-> TRUE, e |-> FALSE, tail |-> {}],
               [w |-> <<"s","e","v","e","r","e"," ","t","r","o","u","b","l","e"," ","b","r","e","a","t","h","i","n","g">>,
                b |-> FALSE, e |-> FALSE, tail |-> {}],
               [w |-> <<"s","h","o","r","t","n","e","s","s"," ","o","f"," ","b","r","e","a","t","h">>,
                b |-> FALSE, e |-> TRUE, tail |-> {}]}]

\* The risk band and the reasons of what_if_check for the question.
WhatIf(question_text) ==
    LET t == Norm(question_text)
        fever == ReSearch(FeverPattern, t)
        chest == ReSearch(ChestPattern, t)
    IN  [risk |-> IF chest THEN "high" ELSE IF fever THEN "moderate" ELSE "low",
         reasons |-> (IF fever THEN <<"High fever can signal infection.">> ELSE <<>>)
                     \o (IF chest THEN <<"Potential cardiopulmonary emergency.">> ELSE <<>>)]

\* what_if_check over the questions asked.
WhatIfAsked == [question_text \in QuestionTexts |-> WhatIf(question_text)]

\* EVIDENCE.add("whatif_rules", f"risk={risk}, reasons={...}")
WhatIfItem(w) == [source |-> "whatif_rules", detail |-> <<"risk", w.risk, w.reasons>>]

\* what_if_check(question_text)
WhatIfCheck(question_text) ==
    /\ Len(EVIDENCE) < MaxEvidence
    /\ EVIDENCE' = Append(EVIDENCE, WhatIfItem(WhatIfAsked[question_text]))
    /\ last' = [NoCall EXCEPT !.op = "what_if_check", !.query = question_text,
                              !.results = <<WhatIfAsked[question_text]>>]
    /\ UNCHANGED <<localFile, _ROWS, _Vectorizer, _MATRIX, loads, argsortTies,
                   callers, builtBy, memo, toolVars>>

\* ---- meds_side_effects_check
\* re.split(r"[,\n;]+", s): the pieces between runs of separators, the empty
\* pieces at the ends included.
MedsSeparators == {",", "\n", ";"}
RECURSIVE SkipSeparators(_)
SkipSeparators(s) ==
    IF s # <<>> /\ Head(s) \in MedsSeparators THEN SkipSeparators(Tail(s)) ELSE s
RECURSIVE SplitMeds(_, _)
SplitMeds(s, piece) ==
    IF s = <<>> THEN <<piece>>
    ELSE IF Head(s) \in MedsSeparators
    THEN <<piece>> \o SplitMeds(SkipSeparators(s), <<>>)
    ELSE SplitMeds(Tail(s), Append(piece, Head(s)))


\* The first loop of _normalize_meds_list: the parts normalised, the empty
\* ones dropped, acetaminophen renamed.
RECURSIVE CanonicalMeds(_)
CanonicalMeds(parts) ==
    IF parts = <<>> THEN <<>>
    ELSE LET n == Norm(Head(parts))
         IN  (IF n = <<>> THEN <<>>
              ELSE IF n = acetaminophen THEN <<paracetamol>> ELSE <<n>>)
                 \o CanonicalMeds(Tail(parts))

\* The second loop: each name once, at its first place.
Deduplicate(meds) ==
    SelectSeq([i \in DOMAIN meds |->
                  [m |-> meds[i], first |-> \A j \in 1..(i - 1) : meds[j] # meds[i]]],
              LAMBDA x : x.first)

\* _normalize_meds_list(inp) for a list, and for a string.
NormalizeMedsList(parts) ==
    LET d == Deduplicate(CanonicalMeds(parts)) IN [i \in DOMAIN d |-> d[i].m]
NormalizeMedsText(text) == NormalizeMedsList(SplitMeds(OrElse(text, <<>>), <<>>))

\* What _load_meds_db meets at MEDS_DATA_CSV: no file to read, a file with
\* rows, a file without a named row, or a read that fails before or after
\* a row was taken.
MedsCsvOutcomes == {"no file", "rows", "no rows", "error", "error after rows"}

\* _load_meds_db: the table from the CSV, or the built-in one when the CSV
\* gave no row; a table already loaded stays.
LoadMedsDb(db, csv) ==
    IF db # "None" THEN db
    ELSE IF csv \in {"rows", "error after rows"} THEN "csv" ELSE "builtin"

\* EVIDENCE.add("medsx_dataset", f"csv error: {e}")
CsvErrorItem == [source |-> "medsx_dataset", detail |-> <<"csv error">>]
\* EVIDENCE.add("medsx_dataset", f"meds={all_names}, sources=mixed")
MedsItem(all_names) ==
    [source |-> "medsx_dataset", detail |-> <<"meds", all_names, "sources=mixed">>]

\* all_names of meds_side_effects_check
AllNames(meds, file_text) ==
    IF Truthy(file_text)
    THEN NormalizeMedsList(NormalizeMedsList(meds) \o NormalizeMedsText(file_text))
    ELSE NormalizeMedsList(meds)

\* all_names over the medications taken.
AllNamesTaken ==
    [meds \in MedsLists, file_text \in FileTexts |-> AllNames(meds, file_text)]

\* meds_side_effects_check(meds, file_text)
MedsSideEffectsCheck(meds, file_text) ==
    \E csv \in (IF _MEDS_DB = "None" THEN MedsCsvOutcomes ELSE {"no file"}) :
       LET failed == _MEDS_DB = "None" /\ csv \in {"error", "error after rows"}
           all_names == AllNamesTaken[meds, file_text]
           added == (IF failed THEN <<CsvErrorItem>> ELSE <<>>)
                    \o (IF all_names # <<>> THEN <<MedsItem(all_names)>> ELSE <<>>)
       IN  /\ Len(EVIDENCE) + Len(added) <= MaxEvidence
           /\ _MEDS_DB' = LoadMedsDb(_MEDS_DB, csv)
           /\ EVIDENCE' = EVIDENCE \o added
           /\ last' = [NoCall EXCEPT !.op = "meds_side_effects_check",
                                     !.results = all_names]
           /\ UNCHANGED <<localFile, _ROWS, _Vectorizer, _MATRIX, loads, argsortTies,
                          callers, builtBy, memo>>
           /\ UNCHANGED <<store, now, _TIMELINE, uuids, PHI_ZERO_RETENTION, state, ret>>

\* ---- check_drug_interactions
\* \b(w1|w2|...)\b
WholeWords(ws) == [alts |-> {[w |-> w, b |-> TRUE, e |-> TRUE, tail |-> {}] : w \in ws}]

\* _INTERACTION_RULES, the dash of the messages in ASCII.
_INTERACTION_RULES ==
    << [a |-> WholeWords({<<"w","a","r","f","a","r","i","n">>,
                        <<"c","o","u","m","a","d","i","n">>,
                        <<"a","n","t","i","c","o","a","g","u","l","a","n","t">>,
                        <<"a","p","i","x","a","b","a","n">>,
                        <<"r","i","v","a","r","o","x","a","b","a","n">>}),
        b |-> WholeWords({<<"i","b","u","p","r","o","f","e","n">>,
                        <<"n","a","p","r","o","x","e","n">>,
                        <<"n","s","a","i","d">>,
                        <<"a","s","p","i","r","i","n">>}),
        msg |-> "Anticoagulants + NSAIDs may increase bleeding risk - discuss with a clinician."],
       [a |-> WholeWords({<<"s","s","r","i">>,
                        <<"s","e","r","t","r","a","l","i","n","e">>,
                        <<"f","l","u","o","x","e","t","i","n","e">>,
                        <<"p","a","r","o","x","e","t","i","n","e">>,
                        <<"c","i","t","a","l","o","p","r","a","m">>,
                        <<"e","s","c","i","t","a","l","o","p","r","a","m">>}),
        b |-> WholeWords({<<"n","s","a","i","d">>,
                        <<"i","b","u","p","r","o","f","e","n">>,
                        <<"n","a","p","r","o","x","e","n">>,
                        <<"a","s","p","i","r","i","n">>}),
        msg |-> "SSRIs + NSAIDs may raise GI bleeding risk - use caution and seek advice."],
       [a |-> WholeWords({<<"a","c","e"," ","i","n","h","i","b","i","t","o","r">>,
                        <<"l","i","s","i","n","o","p","r","i","l">>,
                        <<"e","n","a","l","a","p","r","i","l">>,
                        <<"r","a","m","i","p","r","i","l">>}),
        b |-> WholeWords({<<"n","s","a","i","d">>,
                        <<"i","b","u","p","r","o","f","e","n">>,
                        <<"n","a","p","r","o","x","e","n">>}),
        msg |-> "ACE inhibitors + NSAIDs can affect kidney function - monitor and seek advice."] >>

\* " ".join(names)
RECURSIVE JoinSpace(_)
JoinSpace(names) ==
    IF names = <<>> THEN <<>>
    ELSE IF Len(names) = 1 THEN names[1]
    ELSE names[1] \o <<" ">> \o JoinSpace(Tail(names))

\* The alerts of check_drug_interactions: the messages of the rules both of
\* whose patterns are found in the joined names.
Alerts(names) ==
    LET t == Lower(JoinSpace(names))
        hit == SelectSeq(_INTERACTION_RULES,
                         LAMBDA r : ReSearch(r.a, t) /\ ReSearch(r.b, t))
    IN  [i \in DOMAIN hit |-> hit[i].msg]

\* The alerts over the names checked.
AlertsChecked == [names \in NamesLists |-> Alerts(names)]

\* EVIDENCE.add("medsx_rules", f"interactions={alerts}")
InteractionsItem(alerts) == [source |-> "medsx_rules", detail |-> <<"interactions", alerts>>]

\* check_drug_interactions(names)
CheckDrugInteractions(names) ==
    LET alerts == AlertsChecked[names]
    IN  /\ alerts # <<>> => Len(EVIDENCE) < MaxEvidence
        /\ EVIDENCE' = IF alerts # <<>> THEN Append(EVIDENCE, InteractionsItem(alerts))
                       ELSE EVIDENCE
        /\ last' = [NoCall EXCEPT !.op = "check_drug_interactions", !.results = alerts]
        /\ UNCHANGED <<localFile, _ROWS, _Vectorizer, _MATRIX, loads, argsortTies,
                       callers, builtBy, memo, toolVars>>

\* EVIDENCE_ALLOWED_SOURCES of the configuration module, which rag_dataset
\* imports too.
_CONF_EVIDENCE_SOURCES ==
    {"dataset", "triage_rules", "triage_kb", "whatif_calc", "whatif_dataset",
     "medsx_dataset", "medsx_rules"}

\* The list used when the configuration gives none.
DefaultSources ==
    {"dataset", "rules", "rag", "whatif_rules", "medsx_dataset", "medsx_rules"}

\* set(_CONF_EVIDENCE_SOURCES or [...])
EVIDENCE_ALLOWED_SOURCES ==
    IF _CONF_EVIDENCE_SOURCES # {} THEN _CONF_EVIDENCE_SOURCES ELSE DefaultSources

\* evidence_snapshot(clear) of assistant_tools: the allowed items, and the
\* log emptied when clear is set and an allowed item was found.
ToolEvidenceSnapshot(clear) ==
    LET filtered == SelectSeq(EVIDENCE, LAMBDA i : i.source \in EVIDENCE_ALLOWED_SOURCES)
    IN  /\ last' = [NoCall EXCEPT !.items = filtered,
               !.op = IF clear THEN "evidence_snapshot(clear)" ELSE "evidence_snapshot"]
        /\ EVIDENCE' = IF clear /\ filtered # <<>> THEN <<>> ELSE EVIDENCE
        /\ UNCHANGED <<localFile, _ROWS, _Vectorizer, _MATRIX, loads, argsortTies,
                       callers, builtBy, memo, toolVars>>

\* A line with an empty condition cell.
LineNoCondition == << <<>>, cd >>

ToolFiles ==
    {Unreadable,
     Csv(StdHeader, <<>>),
     Csv(StdHeader, <<LineNoToken>>),
     Csv(StdHeader, <<LineNoCondition>>),
     Csv(StdHeader, <<LineNoCondition, LineA>>),
     Csv(StdHeader, <<LineB, LineEmpty, LineA>>)}

InitTool ==
    /\ localFile \in ToolFiles
    /\ _ROWS = <<>>
    /\ _Vectorizer = NoVectorizer
    /\ _MATRIX = NoMatrix
    /\ EVIDENCE = <<>>
    /\ loads = 0
    /\ last = NoCall
    /\ argsortTies \in Permutations(1..MaxRows)
    /\ callers = NoCallers
    /\ builtBy = NoBuilder
    /\ memo = NoMemo
    /\ ToolsAtImport

NextTool ==
    \/ \E q \in LifecycleQueries, k \in LifecycleTopKs : RagSearchTool(q, k)
    \/ Greeting
    \/ \E clear \in BOOLEAN : ToolEvidenceSnapshot(clear)
    \/ \E question_text \in QuestionTexts : WhatIfCheck(question_text)
    \/ \E meds \in MedsLists, file_text \in FileTexts : MedsSideEffectsCheck(meds, file_text)
    \/ \E names \in NamesLists : CheckDrugInteractions(names)

\* A process using the assistant's tools: the search wrapper, the greeting,
\* the what-if and medication checks, and the evidence panel.
SpecTool == InitTool /\ [][NextTool]_vars

\* ---------------------------------------------------------------- TTLCache
\* The variables of the dataset module, which the cache, the timeline and
\* the triage session never touch.
ragVars == <<localFile, _ROWS, _Vectorizer, _MATRIX, EVIDENCE, loads, last,
             argsortTies, callers, builtBy, memo>>

\* The dataset module as it is at import, with no file at the local path.
RagAtImport ==
    /\ localFile = Absent
    /\ _ROWS = <<>>
    /\ _Vectorizer = NoVectorizer
    /\ _MATRIX = NoMatrix
    /\ EVIDENCE = <<>>
    /\ loads = 0
    /\ last = NoCall
    /\ argsortTies = [i \in 1..MaxRows |-> i]
    /\ callers = NoCallers
    /\ builtBy = NoBuilder
    /\ memo = NoMemo

\* The cache under test: TTLCache(ttl_sec, max_items).
ttl_sec == 2
max_items == 2
\* The clock is followed up to MaxNow seconds.
MaxNow == 4
\* The keys used: enough to overfill the cache.
CacheKeys == 1..(max_items + 2)

\* store is kept in dict order (the order of first insertion), one entry
\* [k, ts, v] per key.
StoreKeys(st) == {st[i].k : i \in DOMAIN st}
StoreAt(st, k) == CHOOSE i \in DOMAIN st : st[i].k = k

\* sorted(store.keys(), key=ts): the positions of st by timestamp, those of
\* equal timestamp in dict order.
SortedByTs(st) ==
    LET before(i, j) == st[i].ts < st[j].ts \/ (st[i].ts = st[j].ts /\ i < j)
    IN  [r \in DOMAIN st |->
            CHOOSE i \in DOMAIN st :
                Cardinality({j \in DOMAIN st : before(j, i)}) = r - 1]

\* _evict: above max_items keys, the oldest len - max_items are popped.
Evict(st) ==
    IF Len(st) <= max_items THEN st
    ELSE LET order == SortedByTs(st)
             gone == {order[r] : r \in 1..(Len(st) - max_items)}
         IN  SelectSeq([i \in DOMAIN st |-> [st[i] EXCEPT !.k = IF i \in gone THEN 0 ELSE @]],
                       LAMBDA e : e.k # 0)

\* store[k] = (time.time(), v): a key already there keeps its place.
StorePut(st, k, ts, v) ==
    IF k \in StoreKeys(st)
    THEN [st EXCEPT ![StoreAt(st, k)] = [k |-> k, ts |-> ts, v |-> v]]
    ELSE Append(st, [k |-> k, ts |-> ts, v |-> v])

\* store.pop(k, None)
StorePop(st, k) == SelectSeq(st, LAMBDA e : e.k # k)

\* TTLCache.set(k, v)
CacheSet(k, v) ==
    /\ store' = StorePut(Evict(store), k, now, v)
    /\ ret' = [op |-> "set", k |-> k]
    /\ UNCHANGED <<now, _TIMELINE, uuids, PHI_ZERO_RETENTION, _MEDS_DB, state>>
    /\ UNCHANGED ragVars

\* TTLCache.get(k): the value, or None for a key that is missing or expired.
CacheGet(k) ==
    LET st == Evict(store)
    IN  /\ IF k \notin StoreKeys(st)
           THEN /\ store' = st
                /\ ret' = [op |-> "get", k |-> k, hit |-> FALSE]
           ELSE LET x == st[StoreAt(st, k)]
                IN  IF now - x.ts > ttl_sec
                    THEN /\ store' = StorePop(st, k)
                         /\ ret' = [op |-> "get", k |-> k, hit |-> FALSE]
                    ELSE /\ store' = st
                         /\ ret' = [op |-> "get", k |-> k, hit |-> TRUE,
                                    v |-> x.v, age |-> now - x.ts]
        /\ UNCHANGED <<now, _TIMELINE, uuids, PHI_ZERO_RETENTION, _MEDS_DB, state>>
        /\ UNCHANGED ragVars

\* Time passes.
Tick ==
    /\ now < MaxNow
    /\ now' = now + 1
    /\ UNCHANGED <<store, _TIMELINE, uuids, PHI_ZERO_RETENTION, _MEDS_DB, state, ret>>
    /\ UNCHANGED ragVars

InitCache == RagAtImport /\ ToolsAtImport

\* The value cached is the time it was fetched at.
NextCache ==
    \/ \E k \in CacheKeys : CacheSet(k, now)
    \/ \E k \in CacheKeys : CacheGet(k)
    \/ Tick

\* A process using one TTLCache.
SpecCache == InitCache /\ [][NextCache]_vars

\* ---------------------------------------------------------------- timeline
\* if len(_TIMELINE) > 100
TimelineCap == 100
\* Up to MaxSaves events are saved.
MaxSaves == 102
\* The kinds of event saved.
Kinds == {"visit"}

\* A caller changes events among the first MaxTamperedId saved.
MaxTamperedId == 2

\* The event save_timeline builds: a fresh id and the kind. An event is a
\* dict object, told from every other by its id: the lists and return
\* values that hold an event of one id hold the same object.
Event(n, kind) == [id |-> n, kind |-> kind]

\* _TIMELINE.insert(0, evt)
Insert0(tl, evt) == <<evt>> \o tl

\* if len(_TIMELINE) > 100: _TIMELINE.pop()
Capped(tl) == IF Len(tl) > TimelineCap THEN SubSeq(tl, 1, Len(tl) - 1) ELSE tl

\* list(_TIMELINE): a new list object holding the same event objects. ref
\* tells which list object the caller holds.
ListCopy(tl) == [ref |-> "copy", items |-> tl]

\* save_timeline(kind, details)
SaveTimeline(kind) ==
    /\ uuids < MaxSaves
    /\ IF PHI_ZERO_RETENTION
       THEN /\ ret' = [op |-> "save_timeline", status |-> "disabled"]
            /\ UNCHANGED <<_TIMELINE, uuids>>
       ELSE LET evt == Event(uuids + 1, kind)
            IN  /\ uuids' = uuids + 1
                /\ _TIMELINE' = Capped(Insert0(_TIMELINE, evt))
                /\ ret' = [op |-> "save_timeline", status |-> "ok", event |-> evt]
    /\ UNCHANGED <<store, now, PHI_ZERO_RETENTION, _MEDS_DB, state>>
    /\ UNCHANGED ragVars

\* timeline_list()
TimelineList ==
    /\ ret' = [op |-> "timeline_list",
               list |-> IF PHI_ZERO_RETENTION THEN ListCopy(<<>>)
                        ELSE ListCopy(_TIMELINE)]
    /\ UNCHANGED <<store, now, _TIMELINE, uuids, PHI_ZERO_RETENTION, _MEDS_DB, state>>
    /\ UNCHANGED ragVars

\* timeline_clear()
TimelineClear ==
    /\ IF PHI_ZERO_RETENTION
       THEN /\ ret' = [op |-> "timeline_clear", status |-> "disabled"]
            /\ UNCHANGED _TIMELINE
       ELSE /\ ret' = [op |-> "timeline_clear", status |-> "ok"]
            /\ _TIMELINE' = <<>>
    /\ UNCHANGED <<store, now, uuids, PHI_ZERO_RETENTION, _MEDS_DB, state>>
    /\ UNCHANGED ragVars

\* What a caller may do to the list it was handed: pop(0), or append an
\* event of its own.
Mutations(items) ==
    {Append(items, Event(0, "visit"))} \cup (IF items = <<>> THEN {} ELSE {Tail(items)})

\* The caller mutates the list timeline_list returned. The change reaches
\* _TIMELINE only if that list is the stored list object itself.
CallerMutates ==
    /\ ret.op = "timeline_list"
    /\ \E items \in Mutations(ret.list.items) :
          /\ ret' = [op |-> "caller_mutated", list |-> [ret.list EXCEPT !.items = items]]
          /\ _TIMELINE' = IF ret.list.ref = "stored" THEN items ELSE _TIMELINE
    /\ UNCHANGED <<store, now, uuids, PHI_ZERO_RETENTION, _MEDS_DB, state>>
    /\ UNCHANGED ragVars

\* evt["kind"] = ... on the event object of this id, seen in a list that
\* holds the object.
ChangeEvent(tl, id) ==
    [i \in DOMAIN tl |->
        IF tl[i].id = id THEN [tl[i] EXCEPT !.kind = "changed by caller"] ELSE tl[i]]

\* The event objects the caller was handed: the first of the list that
\* timeline_list returned, or the event in what save_timeline returned.
Held ==
    IF ret.op = "save_timeline" /\ ret.status = "ok" THEN {ret.event}
    ELSE IF ret.op \in {"timeline_list", "caller_mutated"} /\ ret.list.items # <<>>
    THEN {ret.list.items[1]}
    ELSE {}

\* The caller assigns to a key of an event it was handed. The object is the
\* one the stored list holds.
CallerChangesEvent ==
    /\ \E evt \in Held :
          /\ evt.id \in 1..MaxTamperedId
          /\ evt.kind # "changed by caller"
          /\ _TIMELINE' = ChangeEvent(_TIMELINE, evt.id)
          /\ ret' = [op |-> "caller_changed_event",
                     event |-> [evt EXCEPT !.kind = "changed by caller"]]
    /\ UNCHANGED <<store, now, uuids, PHI_ZERO_RETENTION, _MEDS_DB, state>>
    /\ UNCHANGED ragVars

\* The switch is read from the environment at import.
InitTimeline ==
    /\ RagAtImport
    /\ store = <<>>
    /\ now = 0
    /\ _TIMELINE = <<>>
    /\ uuids = 0
    /\ PHI_ZERO_RETENTION \in BOOLEAN
    /\ _MEDS_DB = "None"
    /\ state = NoState
    /\ ret = NoRet

NextTimeline ==
    \/ \E kind \in Kinds : SaveTimeline(kind)
    \/ TimelineList
    \/ TimelineClear
    \/ CallerMutates
    \/ CallerChangesEvent

\* A process using the timeline.
SpecTimeline == InitTimeline /\ [][NextTimeline]_vars

\* ---------------------------------------------------------- triage session
\* The questions, the apostrophe of the first one in ASCII.
_TRIAGE_QBANK ==
    << [key |-> "age_group", q |-> "What's your age group? (child, teen, adult, older adult)"],
       [key |-> "symptoms", q |-> "Please describe your main symptoms in your own words."],
       [key |-> "duration", q |-> "How long has this been going on? (e.g., hours, days, weeks)"],
       [key |-> "severity", q |-> "How severe is it? (mild, moderate, severe)"] >>

_TRIAGE_WHY ==
    [age_group |-> "Age affects risk thresholds and recommended settings for care.",
     symptoms |-> "Symptoms guide which common conditions we should consider safely.",
     duration |-> "Duration helps separate short-lived issues from those needing review.",
     severity |-> "Severity helps decide if urgent care is safer."]

\* _get_q(key)
GetQ(key) ==
    LET hits == {i \in DOMAIN _TRIAGE_QBANK : _TRIAGE_QBANK[i].key = key}
    IN  IF hits = {} THEN ""
        ELSE _TRIAGE_QBANK[CHOOSE i \in hits : \A j \in hits : i <= j].q

\* _get_why(key): the hint, behind the prefix "_Why this helps:_ ".
GetWhy(key) ==
    IF key \in DOMAIN _TRIAGE_WHY /\ _TRIAGE_WHY[key] # ""
    THEN [prefix |-> "_Why this helps:_ ", hint |-> _TRIAGE_WHY[key]]
    ELSE ""

\* The texts a user sends.
TextAdult == <<" ","A","d","u","l","t"," ">>
TextCough == <<"c","o","u","g","h">>
TextOne == <<"1">>
TextTwo == <<"2">>
TextSix == <<" ","6">>
TextFees == <<"f","e","e","s">>
TextFeet == <<"f","e","e","t">>
TextMenu == <<"M","e","n","u">>
TextDoctorCost == <<"d","o","c","t","o","r"," ","c","o","s","t">>
TextWhatIfBook == <<"w","h","a","t"," ","i","f"," ","b","o","o","k">>
UserTexts ==
    {None, <<>>, TextAdult, TextCough, TextOne, TextTwo, TextSix,
     TextFees, TextFeet, TextMenu, TextDoctorCost, TextWhatIfBook}


\* route_user_input over the texts a user sends, as triage_session_step
\* calls it: on the stripped text.
Routed ==
    [t \in {Strip(OrElse(u, <<>>)) : u \in UserTexts} |-> RouteUserInput(t)]

\* The intents that interrupt a session.
Interrupts_WithTriage == {"nearby", "book", "costs", "main_menu", "triage"}
Interrupts == {"nearby", "book", "costs", "main_menu"}

\* The state triage_session_start returns. The key interrupt_intent is not
\* in it yet: "absent".
NewSession ==
    [started |-> TRUE,
     answers |-> [age_group |-> <<>>, symptoms |-> <<>>, duration |-> <<>>, severity |-> <<>>],
     pending |-> [i \in DOMAIN _TRIAGE_QBANK |-> _TRIAGE_QBANK[i].key],
     complete |-> FALSE,
     interrupt_intent |-> "absent"]

\* triage_session_start()
TriageSessionStart ==
    /\ state' = NewSession
    /\ ret' = [op |-> "triage_session_start"]
    /\ UNCHANGED <<store, now, _TIMELINE, uuids, PHI_ZERO_RETENTION, _MEDS_DB>>
    /\ UNCHANGED ragVars

\* pending.pop(0)
Pop0_Last(pending) == SubSeq(pending, 1, Len(pending) - 1)
Pop0(pending) == Tail(pending)

\* What triage_session_step does to the state and what it returns, from the
\* state st and the text t, stripped.
StepBody(st, t) ==
    LET intent == Routed[t].intent
    IN  IF intent \in Interrupts
        THEN [state |-> [st EXCEPT !.interrupt_intent = intent],
              ask |-> "", why |-> "", complete |-> FALSE]
        ELSE IF st.pending = <<>>
        THEN [state |-> [st EXCEPT !.complete = TRUE],
              ask |-> "", why |-> "", complete |-> TRUE]
        ELSE LET key == st.pending[1]
                 pending == Pop0(st.pending)
                 filled == [st EXCEPT !.answers[key] = t, !.pending = pending]
             IN  IF pending # <<>>
                 THEN [state |-> filled,
                       ask |-> GetQ(pending[1]), why |-> GetWhy(pending[1]),
                       complete |-> FALSE]
                 ELSE [state |-> [filled EXCEPT !.complete = TRUE],
                       ask |-> "", why |-> "", complete |-> TRUE]

\* triage_session_step(state, user_text). The returned dict holds the state
\* itself; ret also keeps the argument and the intent it was routed to.
TriageSessionStep(user_text) ==
    /\ state.started
    /\ LET t == Strip(OrElse(user_text, <<>>))
           out == StepBody(state, t)
       IN  /\ state' = out.state
           /\ ret' = [op |-> "triage_session_step", user_text |-> user_text,
                      intent |-> Routed[t].intent,
                      ask |-> out.ask, why |-> out.why, complete |-> out.complete]
    /\ UNCHANGED <<store, now, _TIMELINE, uuids, PHI_ZERO_RETENTION, _MEDS_DB>>
    /\ UNCHANGED ragVars

InitTriage == RagAtImport /\ ToolsAtImport

NextTriage ==
    \/ TriageSessionStart
    \/ \E user_text \in UserTexts : TriageSessionStep(user_text)

\* A caller running triage sessions.
SpecTriage == InitTriage /\ [][NextTriage]_vars

\* ------------------------------------------------------- loads of CSV files
\* Two columns of the same name, the second one empty in LineA.
DupHeader == <<condition, symptoms, condition>>

LoadHeaders == {StdHeader, AliasHeader, OtherHeader, DupHeader, <<>>}
LoadLines == {LineA, LineB, LineEmpty}

LoadFiles ==
    {Csv(h, ls) : h \in LoadHeaders \ {<<>>}, ls \in SeqsUpTo(LoadLines, MaxRows)}
        \cup {Csv(<<>>, <<>>)}

InitLoad ==
    /\ localFile \in LoadFiles
    /\ _ROWS = <<>>
    /\ _Vectorizer = NoVectorizer
    /\ _MATRIX = NoMatrix
    /\ EVIDENCE = <<>>
    /\ loads = 0
    /\ last = NoCall
    /\ argsortTies = [i \in 1..MaxRows |-> i]
    /\ callers = NoCallers
    /\ builtBy = NoBuilder
    /\ memo = NoMemo
    /\ ToolsAtImport

NextLoad ==
    \/ RagStats
    \/ RagSearch(cd, 1)

\* A process that loads a CSV file of some header and some data lines.
SpecLoad == InitLoad /\ [][NextLoad]_vars

\* ------------------------------------------- searches for a stored row's text
\* The line LineA in lower case: another row with the tokens of LineA.
LineLower == << <<"a","b">>, cd >>

\* A line with one token twice: the term that occurs most often in a corpus
\* with any of the other lines, and shared with none of them.
LineTwice == << zz, zz >>
SelfLines == {LineA, LineB, LineLower, LineNoToken, LineTwice}

SelfFiles == {Csv(StdHeader, ls) : ls \in SeqsUpTo(SelfLines, MaxRows)}

InitSelf ==
    /\ localFile \in SelfFiles
    /\ _ROWS = <<>>
    /\ _Vectorizer = NoVectorizer
    /\ _MATRIX = NoMatrix
    /\ EVIDENCE = <<>>
    /\ loads = 0
    /\ last = NoCall
    /\ argsortTies \in Permutations(1..MaxRows)
    /\ callers = NoCallers
    /\ builtBy = NoBuilder
    /\ memo = NoMemo
    /\ ToolsAtImport

\* The queries are the texts the index builder makes of the file's rows.
NextSelf ==
    \/ RagStats
    \/ \E r \in Range(ParseRows(localFile.header, localFile.lines)), k \in 1..MaxTopK :
         RagSearch(RowText(r), k)

\* A process searching for the texts of its own corpus.
SpecSelf == InitSelf /\ [][NextSelf]_vars

\* ================================================================== claims
\* The public calls, and the exceptions the loader lets through.
Calls == {"rag_search", "rag_stats"}
LoadErrors == {"OSError", "UnicodeDecodeError"}
\* The last step was a call of rag_search or rag_stats that returned.
Returned == last.op \in Calls /\ last.raised = "None"
\* The index is built: rows loaded, vocabulary fitted, matrix set.
IndexBuilt == _ROWS # <<>> /\ _Vectorizer.state = "fitted" /\ ~_MATRIX.isNone

\* C1 as stated: once a call of rag_search or rag_stats has returned, no
\* later call invokes _load_rows again.
C1_LoadsOnce == [][Returned => loads' = loads]_vars

\* C1, amended: once a call has returned with the index built, no later call
\* invokes _load_rows again, whatever happens to the backing file.
C1_NoLoadOnceBuilt == [][IndexBuilt => loads' = loads]_vars

\* C1 witness: the index was built by the one load, the backing file is gone,
\* and a search has run without loading.
C1_Witness ==
    /\ IndexBuilt /\ loads = 1 /\ localFile.kind = "absent"
    /\ last.op = "rag_search" /\ ~last.loaded /\ last.results # <<>>

\* C2: once the index is built, no later step (a call of rag_search or
\* rag_stats, with the _build_index it makes, or a change of the backing file)
\* changes the loaded rows, the fitted vectorizer or the matrix.
C2_IndexReadOnly ==
    [][IndexBuilt => UNCHANGED <<_ROWS, _Vectorizer, _MATRIX>>]_vars

\* C2 witness: the index is built, the backing file has become unreadable,
\* and rag_stats has run on the index without loading.
C2_Witness ==
    /\ IndexBuilt /\ localFile.kind = "unreadable"
    /\ last.op = "rag_stats" /\ ~last.loaded /\ last.stats.indexed = Len(_ROWS)

\* C3: whenever the matrix is set, it has one row per loaded row, and its
\* row i is the vector of the text of _ROWS[i] under the fitted vectorizer.
C3_MatrixMatchesRows ==
    ~_MATRIX.isNone =>
        /\ Len(_MATRIX.data) = Len(_ROWS)
        /\ \A i \in DOMAIN _ROWS :
              _MATRIX.data[i] = Transform(_Vectorizer, RowText(_ROWS[i]))

\* C3 witness: a matrix over two rows whose vectors differ.
C3_Witness ==
    /\ ~_MATRIX.isNone /\ Len(_ROWS) = 2
    /\ _MATRIX.data[1] # _MATRIX.data[2]

\* A row with a non-empty condition, symptoms or advice.
NonBlank(r) == r.condition # <<>> \/ r.symptoms # <<>> \/ r.advice # <<>>

\* C4 as stated: a rag_stats call over a corpus that loaded and is not empty
\* returns rows = indexed, and over an empty corpus returns rows = 0 and
\* indexed = 0.  (Stated for the corpora that hold no blank row.)
C4_StatsAgree ==
    (last.op = "rag_stats" /\ last.raised \notin LoadErrors
        /\ \A i \in DOMAIN _ROWS : NonBlank(_ROWS[i])) =>
        /\ last.raised = "None"
        /\ _ROWS # <<>> => last.stats.rows = last.stats.indexed
        /\ _ROWS = <<>> => last.stats = [rows |-> 0, indexed |-> 0]

\* C5 as stated: after a call whose load gave an empty corpus, the call has
\* not raised, _Vectorizer and _MATRIX are None, rag_search has returned the
\* empty list, and rag_stats has returned rows 0 and indexed 0.
C5_EmptyCorpus ==
    (last.op \in Calls /\ last.loaded /\ last.raised \notin LoadErrors
        /\ _ROWS = <<>>) =>
        /\ last.raised = "None"
        /\ _MATRIX.isNone /\ _Vectorizer.state = "None"
        /\ last.op = "rag_search" => last.results = <<>>
        /\ last.op = "rag_stats" => last.stats = [rows |-> 0, indexed |-> 0]

\* C6 as stated: no call of rag_search or rag_stats propagates an exception
\* of the loader; a file that cannot be read or decoded loads as no rows.
C6_LoaderNeverRaises == last.op \in Calls => last.raised \notin LoadErrors

\* C7 as stated: every loaded row has a non-empty condition, symptoms or
\* advice.
C7_NoBlankRows == \A i \in DOMAIN _ROWS : NonBlank(_ROWS[i])

\* The similarities the last search computed, from the state it left.
LastSims == CosineSimilarity(Transform(_Vectorizer, last.query), _MATRIX)
\* The last step was a search over the built index.
Searched == last.op = "rag_search" /\ last.raised = "None" /\ IndexBuilt
\* The results are ordered by score, descending.
ScoresDescend(results) ==
    \A k \in 1..(Len(results) - 1) : results[k].score >= results[k + 1].score

\* C8: a search over a built corpus of n rows with 1 <= top_k <= n returns
\* exactly top_k results, each the row of its index, ordered by score
\* descending, and no row left out is strictly more similar than a row
\* returned.
C8_TopK ==
    (Searched /\ 1 <= last.top_k /\ last.top_k <= Len(_ROWS)) =>
        /\ Len(last.results) = last.top_k
        /\ Len(last.idx) = last.top_k
        /\ \A k \in DOMAIN last.idx :
              last.results[k] = ResultOf(_ROWS, LastSims, last.idx[k])
        /\ ScoresDescend(last.results)
        /\ \A j \in DOMAIN _ROWS : \A k \in DOMAIN last.idx :
              j \in Range(last.idx) \/ LastSims[j] <= LastSims[last.idx[k]]

\* C8 witness: two rows of different similarity, top_k = 1, and the more
\* similar row returned.
C8_Witness ==
    /\ Searched /\ Len(_ROWS) = 2 /\ last.top_k = 1
    /\ LastSims[1] # LastSims[2]
    /\ Len(last.results) = 1 /\ last.results[1].score > 0

\* C9 as stated: over a loaded corpus, rag_search raises exactly when
\* top_k < 1; no call with top_k < 1 returns a result list.
C9_FailsFast ==
    (last.op = "rag_search" /\ _ROWS # <<>>) =>
        (last.raised # "None" <=> last.top_k < 1)

\* C10 as stated: a search with top_k >= n over a loaded corpus of n rows
\* does not raise and returns every row exactly once, ordered by score
\* descending.
C10_AllRows ==
    (last.op = "rag_search" /\ last.raised \notin LoadErrors
        /\ _ROWS # <<>> /\ last.top_k >= Len(_ROWS)) =>
        /\ last.raised = "None"
        /\ Len(last.results) = Len(_ROWS)
        /\ Range(last.idx) = DOMAIN _ROWS
        /\ \A k \in DOMAIN last.idx :
              last.results[k] = ResultOf(_ROWS, LastSims, last.idx[k])
        /\ ScoresDescend(last.results)

\* numpy's sort happens to be stable in this process: tied rows keep their
\* row order in argsort's ascending result.
StableTies == \A i \in 1..MaxRows : argsortTies[i] = i

\* C11 as stated: among rows of equal similarity the row of lower index is
\* selected first and stands earlier in the result list.  (Stated for the
\* processes whose sort is stable, where the order of tied rows is numpy's
\* most orderly.)
C11_TiesByRowOrder ==
    (Searched /\ StableTies /\ last.top_k >= 1) =>
        /\ \A k, l \in DOMAIN last.idx :
              (k < l /\ LastSims[last.idx[k]] = LastSims[last.idx[l]])
                  => last.idx[k] < last.idx[l]
        /\ \A j \in DOMAIN _ROWS : \A k \in DOMAIN last.idx :
              (j \notin Range(last.idx) /\ LastSims[j] = LastSims[last.idx[k]])
                  => last.idx[k] < j

\* ------------------------------------------------------------------- C12
PastFit == {"L86store", "L90", "L94", "L96", "L98", "L110", "done"}

\* C12: nothing stops a second caller that passed the not-built check: every
\* caller that found the index not built loads the rows once it moves past
\* line 80, and fits a vectorizer of its own when the rows are not empty,
\* whatever the other caller has done meanwhile; so two callers that both
\* pass the check both load and both fit.
C12_BothBuild ==
    \A t \in Callers :
        LET c == callers[t]
        IN  /\ (c.sawUnbuilt /\ c.pc # "L80") => c.loaded
            /\ (c.sawUnbuilt /\ c.pc \in PastFit /\ c.raised = "None" /\ _ROWS # <<>>)
                   => c.fitted

C12_Witness ==
    /\ \A t \in Callers :
           callers[t].sawUnbuilt /\ callers[t].loaded /\ callers[t].fitted
    /\ loads = 2

\* ------------------------------------------------------------------- C13
\* C13: no caller observes a partially-built index: no search transforms its
\* query with a vectorizer that is assigned but not fitted, and the rows,
\* vectorizer and matrix a search used all come from one caller's build.
C13_NoPartialIndex ==
    \A t \in Callers :
        LET c == callers[t]
        IN  /\ c.raised # "NotFittedError"
            /\ c.pc \in {"L110", "done"} /\ c.matOf # "none"
                   => c.vecOf = c.matOf /\ c.matOf = c.rowsOf

\* ------------------------------------------------------------------- C14
\* The step is a call of rag_search (a step that changes the file only
\* leaves `last` as it was).
SearchStep ==
    /\ last'.op = "rag_search"
    /\ <<last, loads, EVIDENCE>>' # <<last, loads, EVIDENCE>>

\* C14: every rag_search call with top_k >= 1 that returns appends exactly one breadcrumb,
\* with source "dataset" and a detail stating the number of results it
\* returned, whatever the outcome, an empty corpus included.
C14_OneBreadcrumb ==
    [][(SearchStep /\ last'.raised = "None" /\ last'.top_k >= 1)
          => EVIDENCE' = Append(EVIDENCE, EvidenceItem(Len(last'.results)))]_vars

\* ------------------------------------------------------------------- C15
\* The step is a call that ran _load_rows.
LoadingStep == loads' = loads + 1

\* C15: a load step over an existing local path uses the file as it is and
\* attempts no download; over a missing path it attempts the download, once:
\* when the attempt fails the path stays missing, the call raises nothing
\* and the corpus is empty; when it succeeds the downloaded file is the
\* local file from then on.
C15_SourceResolution ==
    [][LoadingStep =>
          /\ last'.op \in Calls /\ last'.loaded
          /\ localFile.kind # "absent"
                => ~last'.downloaded /\ localFile' = localFile
          /\ localFile.kind = "absent"
                => /\ last'.downloaded
                   /\ localFile' \in DownloadOutcomes \ {DownloadFailed}
                         \/ /\ localFile' = localFile
                            /\ last'.raised = "None"
                            /\ _ROWS' = <<>>
                            /\ last'.results = <<>>
                            /\ last'.op = "rag_stats" => last'.stats.rows = 0]_vars

\* Two load steps over a missing path, each with a failed download attempt.
C15_Witness ==
    /\ last.op \in Calls /\ last.loaded /\ last.downloaded
    /\ last.raised = "None"
    /\ localFile.kind = "absent"
    /\ loads = 2

\* ------------------------------------------------------------------- C16
\* C16: a rag_search call with the query and top_k of an earlier call that
\* returned, over the same corpus, returns the same result list (the same
\* rows in the same order with the same scores), whatever rag_stats and
\* rag_search calls ran between the two; and when the earlier call returned
\* from a built index the corpus is the same at every later call, whatever
\* ran between and whatever became of the backing file.
C16_Idempotent ==
    (/\ last.op = "rag_search" /\ last.raised = "None"
     /\ memo.set /\ last.query = memo.query /\ last.top_k = memo.top_k
     /\ (memo.built \/ _ROWS = memo.rows))
        => /\ _ROWS = memo.rows
           /\ last.results = memo.results

\* The watched call made again over a built index, after other calls and
\* after the backing file was replaced by one with other rows.
C16_Witness ==
    /\ last.op = "rag_search" /\ last.raised = "None"
    /\ memo.repeats /\ last.query = memo.query /\ last.top_k = memo.top_k
    /\ memo.built /\ Len(_ROWS) = MaxRows
    /\ Len(last.results) >= 1
    /\ localFile.kind = "csv"
    /\ ParseRows(localFile.header, localFile.lines) # _ROWS

\* ------------------------------------------------------------------- C17
\* The rows whose concatenated fields are the last query.
SelfRows == {i \in DOMAIN _ROWS : RowText(_ROWS[i]) = last.query}
\* The similarity of row i is the greatest of the corpus.
IsMaxSim(i) == \A j \in DOMAIN _ROWS : LastSims[j] <= LastSims[i]

\* C17 as stated: for any corpus, a query that is the text of a stored row
\* returns that row first, with the greatest score of the corpus.
C17_SelfFirst ==
    (Searched /\ last.top_k >= 1) =>
        \A i \in SelfRows :
            /\ IsMaxSim(i)
            /\ last.results[1] = ResultOf(_ROWS, LastSims, i)

\* The vectorizer is fitted with max_features far above the vocabulary of
\* any corpus searched here; what its pruning does to a search is looked at
\* with the limits 1..MaxLimit.
MaxLimit == 2

\* The text holds a term of the vocabulary.
KeepsTerm(text, vocab) == Range(Analyze(text)) \cap vocab # {}

\* The similarities of a query to the rows when the fit keeps vocabulary K.
SimsWith(rows, K, query) ==
    LET v == FitWith(Texts(rows), K)
    IN  CosineSimilarity(Transform(v, query), FitTransformMatrix(v, Texts(rows)))

\* The text of row i as the query, under every vocabulary a limit can
\* leave: a row that keeps a term has the greatest similarity, 1.0; when
\* none of its terms is kept every similarity is 0.0.
PrunedSelf(rows, i) ==
    LET query == RowText(rows[i])
    IN  \A limit \in 1..MaxLimit : \A K \in LimitFeatures(Texts(rows), limit) :
            LET sims == SimsWith(rows, K, query)
            IN  IF KeepsTerm(query, K)
                THEN /\ Round3(sims[i]) = 1000
                     /\ \A j \in DOMAIN rows : sims[j] <= sims[i]
                ELSE \A j \in DOMAIN rows : sims[j] = 0

\* The same for every row of every corpus searched, worked out once.
SelfCorpora == {ParseRows(f.header, f.lines) : f \in SelfFiles}
SelfUnderPruning ==
    [rows \in SelfCorpora |-> [i \in DOMAIN rows |-> PrunedSelf(rows, i)]]

\* C17, amended: when the text of the stored row holds a term of the fitted
\* vocabulary, the row has the greatest similarity of the corpus and the
\* first result has the row's score, which is 1.0; the first result is the
\* row itself when no other row has that similarity.  A row none of whose
\* terms is in the vocabulary has similarity 0.0 to its own text.
C17_SelfMaxScore ==
    (Searched /\ last.top_k >= 1) =>
        \A i \in SelfRows :
            /\ KeepsTerm(last.query, _Vectorizer.vocabulary) =>
                  /\ IsMaxSim(i)
                  /\ last.results[1].score = Round3(LastSims[i])
                  /\ last.results[1].score = 1000
                  /\ (\A j \in DOMAIN _ROWS \ {i} : LastSims[j] < LastSims[i])
                         => last.idx[1] = i
            /\ ~KeepsTerm(last.query, _Vectorizer.vocabulary) => LastSims[i] = 0
            /\ SelfUnderPruning[_ROWS][i]

\* A search for the text of the second of two rows, which has tokens, while
\* the first row scores less; a limit of one term can leave the row without
\* a term in the vocabulary.
C17_Witness ==
    /\ Searched /\ last.top_k >= 1
    /\ Len(_ROWS) = MaxRows
    /\ MaxRows \in SelfRows
    /\ KeepsTerm(last.query, _Vectorizer.vocabulary)
    /\ LastSims[1] < LastSims[MaxRows]
    /\ last.idx[1] = MaxRows
    /\ \E K \in LimitFeatures(Texts(_ROWS), 1) : ~KeepsTerm(last.query, K)

\* ------------------------------------------------------------------- C18
\* The terms of the corpus: those of the texts of its rows.
CorpusTerms == UNION {Range(Analyze(RowText(_ROWS[i]))) : i \in DOMAIN _ROWS}
\* The last query has no term of the corpus (the empty string has none).
NoSharedTerm == Range(Analyze(last.query)) \cap CorpusTerms = {}

\* C18: a search with top_k >= 1 whose query shares no term with the loaded
\* corpus of n rows raises nothing and returns min(top_k, n) rows, each with
\* score 0.0.
C18_ZeroQuery ==
    (last.op = "rag_search" /\ last.raised \notin LoadErrors
        /\ last.top_k >= 1 /\ NoSharedTerm) =>
        /\ last.raised = "None"
        /\ Len(last.results) =
              (IF last.top_k < Len(_ROWS) THEN last.top_k ELSE Len(_ROWS))
        /\ \A k \in DOMAIN last.results : last.results[k].score = 0

\* ------------------------------------------------------------------- C19
\* s thousandths is the nearest thousandth to the similarity whose square is
\* sim2 (in units of 1/One): s - 1/2 <= 1000 * sqrt(sim2 / One) < s + 1/2,
\* squared and in units of 1/4000000.
NearestThousandth(s, sim2) ==
    LET q == One \div 4000000
    IN  /\ s >= 1 => (2 * s - 1) * (2 * s - 1) * q <= sim2
        /\ sim2 <= (2 * s + 1) * (2 * s + 1) * q

\* C19: every score rag_search returns lies in [0.0, 1.0] and is the
\* similarity of its row rounded to three decimals.
C19_ScoreRange ==
    (last.op = "rag_search" /\ last.raised = "None") =>
        \A k \in DOMAIN last.results :
            /\ last.results[k].score \in 0..1000
            /\ NearestThousandth(last.results[k].score, LastSims[last.idx[k]])

\* A search that returned a score strictly between 0.0 and 1.0 and a score
\* of 0.0 or 1.0.
C19_Witness ==
    /\ last.op = "rag_search" /\ last.raised = "None"
    /\ \E k \in DOMAIN last.results :
          last.results[k].score \in 1..999
    /\ \E k \in DOMAIN last.results :
          last.results[k].score \in {0, 1000}

\* ------------------------------------------------------------------- C20
\* The data lines of a file: the reader passes over the empty lines.
DataCells(lines) == SelectSeq(lines, LAMBDA l : l # <<>>)
\* The first column, in header order, whose lower-cased name is an alias;
\* 0 when there is none.
FirstAlias(header, aliases) ==
    LET hits == {i \in 1..Len(header) : Lower(header[i]) \in aliases}
    IN  IF hits = {} THEN 0 ELSE CHOOSE i \in hits : \A j \in hits : i <= j
\* The last column with exactly the name of column i.
LastNamed(header, i) ==
    LET same == {j \in 1..Len(header) : header[j] = header[i]}
    IN  CHOOSE k \in same : \A j \in same : j <= k
\* The cell of column i, and the empty string when the line has no such cell.
CellOrEmpty(cells, i) == IF i >= 1 /\ i <= Len(cells) THEN cells[i] ELSE <<>>
TextAliases ==
    [condition |-> CondAliases, symptoms |-> SymAliases, advice |-> AdvAliases]
\* The rows in memory are those loaded from the file at the local path.
LoadedFile == last.loaded /\ last.raised \notin LoadErrors /\ localFile.kind = "csv"

\* C20 as stated: each field is read from the first header column whose
\* lower-cased name is an alias of the field; with no such column a text
\* field is empty and url is absent; a row that lacks the column gets the
\* empty string for the field.
C20_FirstAliasColumn ==
    LoadedFile =>
        LET h == localFile.header
            cells == DataCells(localFile.lines)
            u == FirstAlias(h, UrlAliases)
        IN  /\ Len(_ROWS) = Len(cells)
            /\ \A n \in DOMAIN _ROWS :
                 /\ \A f \in DOMAIN TextAliases :
                       _ROWS[n][f] =
                           Strip(CellOrEmpty(cells[n], FirstAlias(h, TextAliases[f])))
                 /\ u = 0 => _ROWS[n].url = None
                 /\ (u > Len(cells[n])) => _ROWS[n].url = <<>>
                 /\ (u >= 1 /\ u <= Len(cells[n]) /\ cells[n][u] # <<>>)
                       => _ROWS[n].url = cells[n][u]

\* C20, amended: the column of a field is named by the first header column
\* whose lower-cased name is an alias, and the cell is read by that name, so
\* that of several columns with exactly that name the last one is read; with
\* no such column a text field is empty and url is absent; a row that lacks
\* the column gets the empty string for a text field and an absent url; an
\* empty url cell is an absent url too.
C20_ColumnByName ==
    LoadedFile =>
        LET h == localFile.header
            cells == DataCells(localFile.lines)
            col(aliases) == IF FirstAlias(h, aliases) = 0 THEN 0
                            ELSE LastNamed(h, FirstAlias(h, aliases))
            u == col(UrlAliases)
        IN  /\ Len(_ROWS) = Len(cells)
            /\ \A n \in DOMAIN _ROWS :
                 /\ \A f \in DOMAIN TextAliases :
                       _ROWS[n][f] = Strip(CellOrEmpty(cells[n], col(TextAliases[f])))
                 /\ _ROWS[n].url =
                       (IF CellOrEmpty(cells[n], u) = <<>> THEN None ELSE cells[n][u])

\* A short line loaded under a header with two aliases of condition: its
\* condition is read from the first, its advice is empty and its url absent.
C20_Witness ==
    /\ LoadedFile
    /\ localFile.header = AliasHeader
    /\ \E n \in DOMAIN _ROWS :
          /\ Len(DataCells(localFile.lines)[n]) < Len(AliasHeader)
          /\ _ROWS[n].condition = cd
          /\ _ROWS[n].advice = <<>>
          /\ _ROWS[n].url = None

\* ------------------------------------------------------------------- C21
\* C21: every field of every loaded row is stripped of surrounding
\* whitespace, the url included, and a url is None or a non-empty stripped
\* string.
C21_FieldsStripped ==
    LoadedFile =>
        \A n \in DOMAIN _ROWS :
            /\ \A f \in DOMAIN TextAliases : _ROWS[n][f] = Strip(_ROWS[n][f])
            /\ \/ _ROWS[n].url = None
               \/ _ROWS[n].url # <<>> /\ _ROWS[n].url = Strip(_ROWS[n].url)

\* ------------------------------------------------------------------- C22
\* C22: the k-th result of a search is built from one matrix index: it has
\* the condition, symptoms, advice and url of that row of _ROWS and the
\* rounded similarity of the query to that row of the matrix; no index is
\* used for two results.
C22_RowWithItsScore ==
    Searched =>
        /\ Len(last.results) = Len(last.idx)
        /\ \A k \in DOMAIN last.idx :
              LET i == last.idx[k]
              IN  /\ i \in DOMAIN _ROWS
                  /\ last.results[k].condition = _ROWS[i].condition
                  /\ last.results[k].symptoms = _ROWS[i].symptoms
                  /\ last.results[k].advice = _ROWS[i].advice
                  /\ last.results[k].url = _ROWS[i].url
                  /\ last.results[k].score = Round3(LastSims[i])
        /\ \A k, l \in DOMAIN last.idx : last.idx[k] = last.idx[l] => k = l

\* A search that returned the second row before the first, with different
\* scores.
C22_Witness ==
    /\ Searched
    /\ Len(last.idx) >= 2
    /\ last.idx[1] = 2 /\ last.idx[2] = 1
    /\ last.results[1].score > last.results[2].score
    /\ last.results[1].condition # last.results[2].condition

\* ------------------------------------------------------------------- C23
\* The step is a call of rag_search or rag_stats (a step that only changes
\* the file changes localFile and leaves loads as it was).
CallStep == last'.op \in Calls /\ (localFile' = localFile \/ loads' # loads)

\* C23: a call made while the corpus is empty invokes _load_rows, with a
\* download attempt when the local file is absent; a call whose load gives a
\* non-empty corpus builds the index; and no call made while the corpus is
\* non-empty loads again.
C23_LoadsUntilRows ==
    [][CallStep =>
          /\ _ROWS = <<>> => /\ loads' = loads + 1
                             /\ localFile.kind = "absent" => last'.downloaded
          /\ (loads' = loads + 1 /\ _ROWS' # <<>>) => IndexBuilt'
          /\ _ROWS # <<>> => loads' = loads]_vars

\* ------------------------------------------------------------------- C24
\* C24: in every state reached by sequential calls, _Vectorizer and _MATRIX
\* are both None or both set, and they are set only when _ROWS is non-empty.
C24_VectorizerWithMatrix ==
    /\ (_Vectorizer.state = "None") <=> _MATRIX.isNone
    /\ _Vectorizer.state # "None" => _ROWS # <<>>

\* ------------------------------------------------------------------- C25
\* C25: a call of rag_search_tool raises nothing.  When rag_search raised
\* (the file could not be read, or the fit failed and left the vectorizer
\* unfitted), it returns the empty list and appends the one "dataset" item
\* that names the error.  Otherwise it returns the results of rag_search over
\* the index, after rag_search's own breadcrumb it appends one "dataset"
\* breadcrumb when some result has a non-empty condition, and none when no
\* result has.
C25_ToolNeverRaises ==
    [][last'.op = "rag_search_tool" =>
          LET res == last'.results
              base == IF IndexBuilt' THEN Append(EVIDENCE, EvidenceItem(Len(res)))
                      ELSE EVIDENCE
          IN  /\ last'.raised = "None"
              /\ (localFile'.kind = "unreadable" /\ ~IndexBuilt')
                    => last'.caught = "OSError"
              /\ _Vectorizer'.state = "unfitted" => last'.caught = "ValueError"
              /\ last'.caught # "None" =>
                    /\ res = <<>>
                    /\ EVIDENCE' = Append(EVIDENCE, ErrorItem(last'.caught))
              /\ last'.caught = "None" =>
                    /\ res = SearchBody(_ROWS', _Vectorizer', _MATRIX', last'.query,
                                        last'.top_k, argsortTies').out
                    /\ IF \E k \in DOMAIN res : res[k].condition # <<>>
                       THEN /\ Len(EVIDENCE') = Len(base) + 1
                            /\ SubSeq(EVIDENCE', 1, Len(base)) = base
                            /\ EVIDENCE'[Len(EVIDENCE')].source = "dataset"
                            /\ EVIDENCE'[Len(EVIDENCE')].detail[1] = "rag top_k"
                       ELSE EVIDENCE' = base]_vars

\* The wrapper has caught the ValueError of a failed fit: it returned the
\* empty list and the log holds the error item alone.
C25_Witness ==
    /\ last.op = "rag_search_tool" /\ last.caught = "ValueError"
    /\ last.raised = "None" /\ last.results = <<>>
    /\ EVIDENCE = <<ErrorItem("ValueError")>>

\* ------------------------------------------------------------------- C26
\* C26: evidence_snapshot returns only items of an allowed source; called
\* with clear set while the log holds any item, it leaves the log empty;
\* called without clear, it leaves the log as it was.
C26_SnapshotClears ==
    [][last'.op \in {"evidence_snapshot", "evidence_snapshot(clear)"} =>
          /\ \A k \in DOMAIN last'.items :
                last'.items[k].source \in EVIDENCE_ALLOWED_SOURCES
          /\ (last'.op = "evidence_snapshot(clear)" /\ EVIDENCE # <<>>)
                => EVIDENCE' = <<>>
          /\ last'.op = "evidence_snapshot" => EVIDENCE' = EVIDENCE]_vars

\* ------------------------------------------------------------------- C27
\* The keys that left the store in this step, the key that get popped as
\* expired apart.
Evicted ==
    (StoreKeys(store) \ StoreKeys(store'))
        \ (IF ret'.op = "get" /\ Len(Evict(store)) = Len(store') + 1
           THEN {ret'.k} ELSE {})

\* C27: after every set and get the store holds at most max_items keys, the
\* keys evicted are older than or as old as every key kept, and get returns
\* no value older than ttl_sec.
C27_CacheBounded ==
    [][/\ Len(store') <= max_items
       /\ \A e \in Evicted : \A i \in DOMAIN store :
             store[i].k \notin Evicted => store[StoreAt(store, e)].ts <= store[i].ts
       /\ (ret'.op = "get" /\ ret'.hit) => ret'.age <= ttl_sec]_vars

\* ------------------------------------------------------------------- C28
\* The events of a list are newest first: their ids decrease.
NewestFirst(tl) == \A i, j \in DOMAIN tl : i < j => tl[i].id > tl[j].id

\* C28: without zero-retention the timeline holds at most 100 events, newest
\* first; a save into a full timeline drops exactly its oldest event; the
\* list timeline_list returns holds the stored events and nothing a caller
\* does with what it was handed changes the stored list. With zero-retention
\* nothing is ever stored and timeline_list returns the empty list.
C28_Timeline ==
    [][IF PHI_ZERO_RETENTION
       THEN /\ _TIMELINE' = <<>>
            /\ ret'.op = "timeline_list" => ret'.list.items = <<>>
       ELSE /\ Len(_TIMELINE') <= TimelineCap
            /\ NewestFirst(_TIMELINE')
            /\ ret'.op = "save_timeline" =>
                  /\ _TIMELINE'[1] = ret'.event
                  /\ Tail(_TIMELINE') =
                        IF Len(_TIMELINE) = TimelineCap
                        THEN SubSeq(_TIMELINE, 1, TimelineCap - 1)
                        ELSE _TIMELINE
            /\ ret'.op = "timeline_list" => ret'.list.items = _TIMELINE
            /\ ret'.op \in {"caller_mutated", "caller_changed_event"} =>
                  _TIMELINE' = _TIMELINE]_vars

\* ------------------------------------------------------------------- C29
\* The keys of the questions, in the order of the bank.
QKeys == <<"age_group", "symptoms", "duration", "severity">>

\* The step taken is a call of triage_session_step that was not routed to
\* one of the interrupt intents and found a slot pending.
AnswerStep ==
    /\ ret'.op = "triage_session_step"
    /\ ret'.intent \notin {"nearby", "book", "costs", "main_menu"}
    /\ state.pending # <<>>

\* The session makes progress in the fixed order: the pending slots are the
\* tail of the question keys, an answering step removes the first of them
\* and asks the question of the next, and complete is true exactly while no
\* slot is pending and never goes back to false.
Progress ==
    /\ \E n \in 0..Len(QKeys) : state'.pending = SubSeq(QKeys, n + 1, Len(QKeys))
    /\ state'.complete <=> state'.pending = <<>>
    /\ (state.started /\ state.complete /\ ret'.op = "triage_session_step")
          => state'.complete
    /\ AnswerStep =>
          /\ state'.pending = Tail(state.pending)
          /\ \A key \in DOMAIN state.answers :
                key # Head(state.pending) => state'.answers[key] = state.answers[key]
          /\ ret'.complete = (state'.pending = <<>>)
          /\ ret'.ask = IF state'.pending = <<>> THEN ""
                        ELSE _TRIAGE_QBANK[Len(QKeys) + 1 - Len(state'.pending)].q

\* C29 as stated: the session makes progress in the fixed order, and a step
\* that is no interrupt fills the first pending slot with the user text.
C29_FilledWithUserText ==
    [][(state'.started /\ ret'.op # "triage_session_start") =>
          /\ Progress
          /\ (AnswerStep /\ ret'.user_text # None) =>
                state'.answers[Head(state.pending)] = ret'.user_text]_vars

\* C29, amended: the session makes progress in the fixed order, and a step
\* that is no interrupt fills the first pending slot with the user text
\* stripped of its surrounding whitespace (the empty text for None).
C29_FilledWithStrippedText ==
    [][(state'.started /\ ret'.op # "triage_session_start") =>
          /\ Progress
          /\ AnswerStep =>
                state'.answers[Head(state.pending)] = Strip(OrElse(ret'.user_text, <<>>))]_vars

\* A session completed by a fourth answer, its first slot holding the text
\* " Adult " without the spaces around it.
C29_Witness ==
    /\ state.started
    /\ state.complete
    /\ ret.op = "triage_session_step"
    /\ ret.complete
    /\ state.answers.age_group = <<"A","d","u","l","t">>
    /\ state.answers.severity = TextCough

\* ------------------------------------------------------------------- C30
\* C30: a step routed to nearby, book, costs or main_menu changes nothing of
\* the state but interrupt_intent, which it sets to the intent, and returns
\* no question and complete false, whichever slot is pending; a step with any
\* other input, a slot pending, takes the input as the answer to the first
\* pending slot.
C30_InterruptFrame ==
    [][ret'.op = "triage_session_step" =>
          IF ret'.intent \in {"nearby", "book", "costs", "main_menu"}
          THEN /\ state' = [state EXCEPT !.interrupt_intent = ret'.intent]
               /\ ret'.ask = ""
               /\ ret'.complete = FALSE
          ELSE state.pending # <<>> =>
                  /\ state'.answers[Head(state.pending)] = Strip(OrElse(ret'.user_text, <<>>))
                  /\ state'.pending = Tail(state.pending)
                  /\ state'.interrupt_intent = state.interrupt_intent]_vars

\* An interrupt arrived with a slot pending in the middle of a session, and
\* another after the session was complete.
C30_Witness ==
    /\ state.started
    /\ ret.op = "triage_session_step"
    /\ ret.intent = "book"
    /\ state.interrupt_intent = "book"
    /\ state.pending = <<"duration", "severity">>
    /\ state.answers.symptoms = TextWhatIfBook

====
